---- MODULE Spec2Model ----
(***************************************************************************)
(* Structural hardware emulator of the breadboard CPU (hardware.py): Net,  *)
(* System (net/add/wire, eval_combinational, tick) and the chip catalog,   *)
(* exercised on small test benches built with the construction API.        *)
(***************************************************************************)
EXTENDS Integers, Sequences, FiniteSets, TLC

VARIABLES
    nets,       \* System.nets: name -> Net (pull, state, next_state, drivers)
    chips,      \* System.chips: sequence of Chip records, in add() order
    clk_val,    \* System.clk_val; None until the first tick() creates it
    ext,        \* attributes read by harness-appended driver lambdas
    pc,         \* position of the running call: setup, idle, clk1, clk0,
                \* settle, ticks
    tstep,      \* index of the running statement of tick(), 0 outside tick()
    iter,       \* passes finished by the running eval_combinational()
    k,          \* chips already ticked in the running `for chip in chips` loop
    warning,    \* the running (or last) call printed the loop warning
    reports,    \* contention reports raised/recorded by the running call
    log,        \* what the running (or last) call did, in order
    snap,       \* the last return of eval_combinational(): the net states it
                \* left, its passes, whether it converged or printed; valid
                \* until an input, a clock or a chip changes
    forced,     \* nets assigned by hand (next_state = v; apply()) since then
    bench,      \* which test bench the System was built as
    order,      \* the key order of the dict System.nets
    sub,        \* position inside one pass, when passes run net by net
    changed,    \* the local `changed` of the running pass
    ret,        \* what the last Net.apply() returned
    wiring_log, \* System.wiring_log
    built,      \* construction calls of the bench script already made
    error,      \* the ValueError a construction call raised, <<>> if none
    before,     \* the chip as it was before the harness's last direct call;
                \* for a call on a System run as a whole, its chips before it
    call,       \* the harness's last step on a single chip: none, poke,
                \* eval, tick
    wrote,      \* the last memory write a direct eval() made, and how many
                \* direct calls ago
    asm,        \* the Assembler object and the position of assemble() in it
    cpu,        \* what the emulator and the microcode made of the last opcode
    twin        \* a second System, wired by the same wire() calls after the
                \* same add() calls made in another order, and given the
                \* same calls

fine == <<sub, changed, ret>>

\* what only the single-chip harness writes
unit == <<before, call, wrote>>

\* what only construction writes
setup == <<wiring_log, built, bench>>

\* what only the assembler, the instruction decoders and the harness of the
\* second System write
tools == <<asm, cpu, twin>>

vars == <<nets, chips, clk_val, ext, pc, tstep, iter, k, warning, reports,
          log, snap, forced, bench, order, sub, changed, ret, wiring_log,
          built, error, before, call, wrote, asm, cpu, twin>>

-----------------------------------------------------------------------------
(* Values *)

\* Python None (Net.pull default, a missing attribute)
None == -1
\* the tri-state marker 'Z' of Chip.out_states
HiZ == 2
\* mutant: the loop runs one pass too many
MaxPasses_off == 30 + 1

\* range(30) of eval_combinational
MaxPasses == 30

Bit(v, i) == (v \div (2 ^ i)) % 2

-----------------------------------------------------------------------------
(* Bounds of the test benches *)

\* number of sample bytes the harness may put on a data bus
NumBytes == 4
\* number of nets the harness may force by hand before one call
MaxForced == 1
\* inverters in series in the chain bench (one 74HC04 holds 6)
ChainLen == 3
\* harness drivers on each driven net of the bare-net bench
NumDrivers == 3

\* number of sample values the harness may put on a counter's or adder's
\* four-bit inputs
NumNibbles == 3

SampleBytes == <<0, 90, 255, 165, 1, 128, 15, 240>>
Bytes == {SampleBytes[i] : i \in 1..NumBytes}

\* number of sample bytes the harness may give an arithmetic chip as operand
NumOperands == 10

SampleOperands == <<0, 255, 1, 128, 127, 90, 165, 15, 240, 254, 2, 85, 170>>
OpBytes == {SampleOperands[i] : i \in 1..NumOperands}

SampleNibbles == <<0, 15, 9, 6, 1, 8>>
Nibbles == {SampleNibbles[i] : i \in 1..NumNibbles}

\* the addresses the harness puts on a memory: the first and the last
Addrs == {0, 2 ^ 15 - 1}

-----------------------------------------------------------------------------
(* Net *)

NewNet(pull) ==
    [pull |-> pull,
     state |-> IF pull # None THEN pull ELSE 0,
     next_state |-> IF pull # None THEN pull ELSE 0,
     drivers |-> <<>>]

\* a driver callback: the lambda of System.wire reading chip.out_states[pin],
\* a lambda reading an attribute (clk_val, reset_val), or a constant lambda
PinDriver(j, pin) == [kind |-> "pin", chip |-> j, name |-> pin, bit |-> 0]
VarDriver(name) == [kind |-> "var", chip |-> 0, name |-> name, bit |-> 0]
BitDriver(name, i) == [kind |-> "bit", chip |-> 0, name |-> name, bit |-> i]
ConstDriver(v) == [kind |-> "const", chip |-> 0, name |-> "", bit |-> v]
ClkDriver == [kind |-> "clk", chip |-> 0, name |-> "clk_val", bit |-> 0]

DriverValue(d, chs, clk, ex) ==
    CASE d.kind = "pin" -> chs[d.chip].out_states[d.name]
      [] d.kind = "var" -> ex[d.name]
      [] d.kind = "bit" -> Bit(ex[d.name], d.bit)
      [] d.kind = "const" -> d.bit
      [] d.kind = "clk" -> clk

RECURSIVE DriveLoop_onlyZ(_, _, _, _, _, _)
\* mutant: the loop tests only `v != 'Z'`, so a None driver clears val
DriveLoop_onlyZ(ds, i, val, chs, clk, ex) ==
    IF i > Len(ds) THEN val
    ELSE LET v == DriverValue(ds[i], chs, clk, ex)
         IN  DriveLoop_onlyZ(ds, i + 1, IF v # HiZ THEN v ELSE val, chs, clk, ex)

RECURSIVE DriveLoop_first(_, _, _, _, _, _)
\* mutant: the first driving value is kept against later ones
DriveLoop_first(ds, i, val, chs, clk, ex) ==
    IF i > Len(ds) THEN val
    ELSE LET v == DriverValue(ds[i], chs, clk, ex)
         IN  DriveLoop_first(ds, i + 1,
                             IF v # None /\ v # HiZ /\ val = None THEN v ELSE val,
                             chs, clk, ex)

RECURSIVE DriveLoop_any(_, _, _, _, _, _)
\* mutant: the loop tests only `v is not None`, so 'Z' counts as a value
DriveLoop_any(ds, i, val, chs, clk, ex) ==
    IF i > Len(ds) THEN val
    ELSE LET v == DriverValue(ds[i], chs, clk, ex)
         IN  DriveLoop_any(ds, i + 1, IF v # None THEN v ELSE val, chs, clk, ex)

RECURSIVE DriveLoop(_, _, _, _, _, _)
\* the for loop of Net.eval over drivers[i..]: the last driving value wins
DriveLoop(ds, i, val, chs, clk, ex) ==
    IF i > Len(ds) THEN val
    ELSE LET v == DriverValue(ds[i], chs, clk, ex)
         IN  DriveLoop(ds, i + 1,
                       IF v # None /\ v # HiZ THEN v ELSE val,
                       chs, clk, ex)

\* mutant: with no driving driver next_state keeps its old value
Net_eval_keep(net, chs, clk, ex) ==
    LET val == DriveLoop(net.drivers, 1, None, chs, clk, ex)
    IN  [net EXCEPT !.next_state = IF val # None THEN val ELSE @]

\* mutant: eval commits the value into state as well
Net_eval_commit(net, chs, clk, ex) ==
    LET val == DriveLoop(net.drivers, 1, None, chs, clk, ex)
        v == IF val # None THEN val ELSE IF net.pull # None THEN net.pull ELSE 0
    IN  [net EXCEPT !.next_state = v, !.state = v]

Net_eval(net, chs, clk, ex) ==
    LET val == DriveLoop(net.drivers, 1, None, chs, clk, ex)
    IN  [net EXCEPT !.next_state =
            IF val # None THEN val
            ELSE IF net.pull # None THEN net.pull ELSE 0]

\* mutant: `changed` is computed after the assignment
Net_apply_late(net) ==
    [net |-> [net EXCEPT !.state = net.next_state], changed |-> FALSE]

Net_apply(net) ==
    [net |-> [net EXCEPT !.state = net.next_state],
     changed |-> net.state # net.next_state]

\* the contention reports Net.eval makes: the branch is `pass`
Net_eval_reports(net, chs, clk, ex) == {}

-----------------------------------------------------------------------------
(* Chip catalog *)

\* [f"{prefix}{i}" for i in range(n)]
Names(prefix, n) == [i \in 1..n |-> prefix \o ToString(i - 1)]

\* [f"{prefix}{i}{suffix}" for i in range(lo, lo + n)]
NamesFrom(prefix, lo, n, suffix) ==
    [i \in 1..n |-> prefix \o ToString(lo + i - 1) \o suffix]

Range(s) == {s[i] : i \in 1..Len(s)}

PinIndex(pins, p) == CHOOSE i \in 1..Len(pins) : pins[i] = p

\* the numbered pin lists of the wide parts
A8 == Names("A", 8)
B8 == Names("B", 8)
A15 == Names("A", 15)
OP3 == Names("OP", 3)
AOut8 == NamesFrom("A", 0, 8, "_OUT")
BOut8 == NamesFrom("B", 0, 8, "_OUT")
Y8 == Names("~Y", 8)
Y16 == Names("~Y", 16)
A4 == NamesFrom("A", 1, 4, "")
B4 == NamesFrom("B", 1, 4, "")
S4 == NamesFrom("S", 1, 4, "")

QPins == <<"Q0", "Q1", "Q2", "Q3", "Q4", "Q5", "Q6", "Q7">>
DPins == <<"D0", "D1", "D2", "D3", "D4", "D5", "D6", "D7">>
APins == <<"1A", "2A", "3A", "4A", "5A", "6A">>
YPins == <<"1Y", "2Y", "3Y", "4Y", "5Y", "6Y">>
\* the load inputs and count outputs of the counters
ABCD == <<"A", "B", "C", "D">>
QABCD == <<"QA", "QB", "QC", "QD">>
\* the pins of the quad two-input gate packs
GateIn == <<"1A", "1B", "2A", "2B", "3A", "3B", "4A", "4B">>
GateOut == <<"1Y", "2Y", "3Y", "4Y">>

\* Chip.inputs, in declaration order
InputPins(part) ==
    CASE part = "74HC574" -> <<"~OE", "CLK">> \o DPins
      [] part = "74HC161" ->
            <<"~CLR", "CLK", "A", "B", "C", "D", "ENP", "ENT", "~LOAD">>
      [] part = "74HC193" ->
            <<"CLR", "UP", "DOWN", "A", "B", "C", "D", "~LOAD">>
      [] part = "74HC245" -> <<"DIR", "~OE">> \o A8 \o B8
      [] part = "74HC283" ->
            A4 \o B4 \o <<"C0">>
      [] part = "74HC138" -> <<"A", "B", "C", "~G2A", "~G2B", "G1">>
      [] part = "74HC154" -> <<"A", "B", "C", "D", "~G1", "~G2">>
      [] part = "74HC04" -> APins
      [] part \in {"74HC08", "74HC32", "74HC00"} -> GateIn
      [] part \in {"28C256", "62256"} ->
            <<"~CE", "~OE", "~WE">> \o A15 \o DPins
      [] part = "GAL22V10" ->
            A8 \o B8 \o OP3 \o <<"~OE">>
      [] OTHER -> <<>>

\* Chip.outputs, in declaration order
OutputPins(part) ==
    CASE part = "74HC574" -> QPins
      [] part = "74HC161" -> QABCD \o <<"RCO">>
      [] part = "74HC193" -> QABCD \o <<"~CO", "~BO">>
      [] part = "74HC245" ->
            AOut8 \o BOut8
      [] part = "74HC283" -> S4 \o <<"C4">>
      [] part = "74HC138" -> Y8
      [] part = "74HC154" -> Y16
      [] part = "74HC04" -> YPins
      [] part \in {"74HC08", "74HC32", "74HC00"} -> GateOut
      [] part \in {"28C256", "62256"} -> QPins
      [] part = "GAL22V10" -> QPins \o <<"Z", "C", "N">>
      [] OTHER -> <<>>

Inputs(part) == Range(InputPins(part))

Outputs(part) == Range(OutputPins(part))

NewChip(part, ref) ==
    [part_name |-> part,
     ref |-> ref,
     connections |-> [p \in {} |-> ""],
     out_states |-> [p \in Outputs(part) |-> HiZ],
     val |-> 0,
     prev_clk |-> 0,
     prev_up |-> 0,
     prev_dn |-> 0,
     mem |-> [a \in {} |-> 0]]

\* mutant: read() returns the value the net is about to take
Chip_read_next(c, pin, nts) ==
    IF pin \in DOMAIN c.connections
    THEN nts[c.connections[pin]].next_state ELSE 0

\* Chip.read
Chip_read(c, pin, nts) ==
    IF pin \in DOMAIN c.connections THEN nts[c.connections[pin]].state ELSE 0

\* mutant: the outputs are driven whatever ~OE reads
Eval574_always(c, nts) ==
    [c EXCEPT !.out_states =
        [p \in Range(QPins) |->
            LET i == CHOOSE j \in 0..7 : QPins[j + 1] = p
            IN  Bit(c.val, i)]]

\* IC_74HC574.eval
Eval574(c, nts) ==
    IF Chip_read(c, "~OE", nts) = 0
    THEN [c EXCEPT !.out_states =
            [p \in Range(QPins) |->
                LET i == CHOOSE j \in 0..7 : QPins[j + 1] = p
                IN  Bit(c.val, i)]]
    ELSE [c EXCEPT !.out_states = [p \in Range(QPins) |-> HiZ]]

RECURSIVE ReadByte_shifted(_, _, _, _)
\* mutant: v |= (1 << (i + 1))
ReadByte_shifted(c, pins, i, nts) ==
    IF i > Len(pins) THEN 0
    ELSE (IF Chip_read(c, pins[i], nts) = 1 THEN 2 ^ i ELSE 0)
         + ReadByte_shifted(c, pins, i + 1, nts)

RECURSIVE ReadByte(_, _, _, _)
\* v |= (1 << i) for every pin i..7 of `pins` that reads 1
ReadByte(c, pins, i, nts) ==
    IF i > Len(pins) THEN 0
    ELSE (IF Chip_read(c, pins[i], nts) = 1 THEN 2 ^ (i - 1) ELSE 0)
         + ReadByte(c, pins, i + 1, nts)

\* mutant: the register is a transparent latch, loading while CLK reads 1
Tick574_level(c, nts) ==
    LET clk == Chip_read(c, "CLK", nts)
    IN  [c EXCEPT !.val = IF clk = 1 THEN ReadByte(c, DPins, 1, nts) ELSE @,
                  !.prev_clk = clk]

\* IC_74HC574.tick
Tick574(c, nts) ==
    LET clk == Chip_read(c, "CLK", nts)
    IN  [c EXCEPT !.val = IF clk = 1 /\ c.prev_clk = 0
                          THEN ReadByte(c, DPins, 1, nts) ELSE @,
                  !.prev_clk = clk]

\* mutant: the pack passes its inputs on as they are
Eval04_buffer(c, nts) ==
    [c EXCEPT !.out_states =
        [p \in Range(YPins) |->
            LET i == CHOOSE j \in 1..6 : YPins[j] = p
            IN  Chip_read(c, APins[i], nts)]]

\* IC_74HC04.eval
Eval04(c, nts) ==
    [c EXCEPT !.out_states =
        [p \in Range(YPins) |->
            LET i == CHOOSE j \in 1..6 : YPins[j] = p
            IN  1 - Chip_read(c, APins[i], nts)]]

RECURSIVE ReadSum(_, _, _, _)
\* sum(self.read(pin i) << i): the integer on pins[i..], pins[1] being bit 0
ReadSum(c, pins, i, nts) ==
    IF i > Len(pins) THEN 0
    ELSE Chip_read(c, pins[i], nts) * 2 ^ (i - 1) + ReadSum(c, pins, i + 1, nts)

\* for i, p in enumerate(pins): self.write(p, (v >> i) & 1)
WriteBits(pins, v) == [p \in Range(pins) |-> Bit(v, PinIndex(pins, p) - 1)]

\* for p in pins: self.write(p, 'Z')
WriteZ(pins) == [p \in Range(pins) |-> HiZ]

\* Python's a & b, a | b and a ^ b on bytes
RECURSIVE BitAndFrom(_, _, _)
BitAndFrom(x, y, i) ==
    IF i > 7 THEN 0
    ELSE Bit(x, i) * Bit(y, i) * 2 ^ i + BitAndFrom(x, y, i + 1)

BitAnd(x, y) == BitAndFrom(x, y, 0)

BitOr(x, y) == x + y - BitAnd(x, y)

BitXor(x, y) == x + y - 2 * BitAnd(x, y)

\* mutant: RCO needs both count enables
Eval161_enp(c, nts) ==
    LET v == IF Chip_read(c, "~CLR", nts) = 0 THEN 0 ELSE c.val
        rco == IF v = 15 /\ Chip_read(c, "ENT", nts) = 1
                         /\ Chip_read(c, "ENP", nts) = 1 THEN 1 ELSE 0
    IN  [c EXCEPT !.val = v,
                  !.out_states = WriteBits(QABCD, v) @@ ("RCO" :> rco)]

\* IC_74HC161.eval
Eval161(c, nts) ==
    LET v == IF Chip_read(c, "~CLR", nts) = 0 THEN 0 ELSE c.val
        rco == IF v = 15 /\ Chip_read(c, "ENT", nts) = 1 THEN 1 ELSE 0
    IN  [c EXCEPT !.val = v,
                  !.out_states = WriteBits(QABCD, v) @@ ("RCO" :> rco)]

\* mutant: the edge branch does not test ~CLR
Tick161_noclr(c, nts) ==
    LET clk == Chip_read(c, "CLK", nts)
    IN  [c EXCEPT
            !.val = IF clk = 1 /\ c.prev_clk = 0
                    THEN IF Chip_read(c, "~LOAD", nts) = 0
                         THEN ReadByte(c, ABCD, 1, nts)
                         ELSE IF Chip_read(c, "ENP", nts) = 1
                                 /\ Chip_read(c, "ENT", nts) = 1
                              THEN (c.val + 1) % 16 ELSE @
                    ELSE @,
            !.prev_clk = clk]

\* mutant: the increment is not masked with 0x0F
Tick161_nowrap(c, nts) ==
    LET clk == Chip_read(c, "CLK", nts)
    IN  [c EXCEPT
            !.val = IF clk = 1 /\ c.prev_clk = 0
                       /\ Chip_read(c, "~CLR", nts) # 0
                    THEN IF Chip_read(c, "~LOAD", nts) = 0
                         THEN ReadByte(c, ABCD, 1, nts)
                         ELSE IF Chip_read(c, "ENP", nts) = 1
                                 /\ Chip_read(c, "ENT", nts) = 1
                              THEN IF c.val < 15 THEN c.val + 1 ELSE 15
                              ELSE @
                    ELSE @,
            !.prev_clk = clk]

\* mutant: the enables are tested before ~LOAD
Tick161_countfirst(c, nts) ==
    LET clk == Chip_read(c, "CLK", nts)
    IN  [c EXCEPT
            !.val = IF clk = 1 /\ c.prev_clk = 0
                       /\ Chip_read(c, "~CLR", nts) # 0
                    THEN IF Chip_read(c, "ENP", nts) = 1
                            /\ Chip_read(c, "ENT", nts) = 1
                         THEN (c.val + 1) % 16
                         ELSE IF Chip_read(c, "~LOAD", nts) = 0
                              THEN ReadByte(c, ABCD, 1, nts) ELSE @
                    ELSE @,
            !.prev_clk = clk]

\* IC_74HC161.tick
Tick161(c, nts) ==
    LET clk == Chip_read(c, "CLK", nts)
    IN  [c EXCEPT
            !.val = IF clk = 1 /\ c.prev_clk = 0
                       /\ Chip_read(c, "~CLR", nts) # 0
                    THEN IF Chip_read(c, "~LOAD", nts) = 0
                         THEN ReadByte(c, ABCD, 1, nts)
                         ELSE IF Chip_read(c, "ENP", nts) = 1
                                 /\ Chip_read(c, "ENT", nts) = 1
                              THEN (c.val + 1) % 16 ELSE @
                    ELSE @,
            !.prev_clk = clk]

\* mutant: ~CO and ~BO follow the count alone, not the UP and DOWN pulses
Eval193_ungated(c, nts) ==
    LET v == IF Chip_read(c, "CLR", nts) = 1 THEN 0 ELSE c.val
    IN  [c EXCEPT !.val = v,
                  !.out_states = WriteBits(QABCD, v)
                                 @@ ("~CO" :> IF v = 15 THEN 0 ELSE 1)
                                 @@ ("~BO" :> IF v = 0 THEN 0 ELSE 1)]

\* IC_74HC193.eval
Eval193(c, nts) ==
    LET v == IF Chip_read(c, "CLR", nts) = 1 THEN 0 ELSE c.val
        co == IF v = 15 /\ Chip_read(c, "UP", nts) = 0 THEN 0 ELSE 1
        bo == IF v = 0 /\ Chip_read(c, "DOWN", nts) = 0 THEN 0 ELSE 1
    IN  [c EXCEPT !.val = v,
                  !.out_states = WriteBits(QABCD, v)
                                 @@ ("~CO" :> co) @@ ("~BO" :> bo)]

\* mutant: the decrement is not masked with 0x0F and stops at 0
Tick193_nowrap(c, nts) ==
    LET up == Chip_read(c, "UP", nts)
        dn == Chip_read(c, "DOWN", nts)
        v1 == IF up = 1 /\ c.prev_up = 0 /\ dn = 1
              THEN (c.val + 1) % 16 ELSE c.val
        v2 == IF dn = 1 /\ c.prev_dn = 0 /\ up = 1
              THEN (IF v1 > 0 THEN v1 - 1 ELSE 0) ELSE v1
    IN  [c EXCEPT
            !.val = IF Chip_read(c, "CLR", nts) = 0
                    THEN IF Chip_read(c, "~LOAD", nts) = 0
                         THEN ReadByte(c, ABCD, 1, nts) ELSE v2
                    ELSE @,
            !.prev_up = up,
            !.prev_dn = dn]

\* IC_74HC193.tick
Tick193(c, nts) ==
    LET up == Chip_read(c, "UP", nts)
        dn == Chip_read(c, "DOWN", nts)
        v1 == IF up = 1 /\ c.prev_up = 0 /\ dn = 1
              THEN (c.val + 1) % 16 ELSE c.val
        v2 == IF dn = 1 /\ c.prev_dn = 0 /\ up = 1
              THEN (v1 - 1) % 16 ELSE v1
    IN  [c EXCEPT
            !.val = IF Chip_read(c, "CLR", nts) = 0
                    THEN IF Chip_read(c, "~LOAD", nts) = 0
                         THEN ReadByte(c, ABCD, 1, nts) ELSE v2
                    ELSE @,
            !.prev_up = up,
            !.prev_dn = dn]

\* the pins of one side of the transceiver read by the other side's outputs
Through(c, outs, ins, nts) ==
    [p \in Range(outs) |-> Chip_read(c, ins[PinIndex(outs, p)], nts)]

\* IC_74HC245.eval
Eval245(c, nts) ==
    [c EXCEPT !.out_states =
        IF Chip_read(c, "~OE", nts) = 0
        THEN IF Chip_read(c, "DIR", nts) = 1
             THEN WriteZ(AOut8) @@ Through(c, BOut8, A8, nts)
             ELSE WriteZ(BOut8) @@ Through(c, AOut8, B8, nts)
        ELSE WriteZ(AOut8) @@ WriteZ(BOut8)]

\* mutant: the carry input is not added
Eval283_nocarry(c, nts) ==
    LET a == ReadSum(c, A4, 1, nts)
        b == ReadSum(c, B4, 1, nts)
        res == a + b
    IN  [c EXCEPT !.out_states = WriteBits(S4, res) @@ ("C4" :> Bit(res, 4))]

\* IC_74HC283.eval
Eval283(c, nts) ==
    LET a == ReadSum(c, A4, 1, nts)
        b == ReadSum(c, B4, 1, nts)
        res == a + b + Chip_read(c, "C0", nts)
    IN  [c EXCEPT !.out_states = WriteBits(S4, res) @@ ("C4" :> Bit(res, 4))]

\* for i in range(n): self.write(f'~Y{i}', 0 if (en and i == idx) else 1)
Decode(pins, en, idx) ==
    [p \in Range(pins) |-> IF en /\ PinIndex(pins, p) - 1 = idx THEN 0 ELSE 1]

\* mutant: the enable does not test ~G2B
Eval138_g2b(c, nts) ==
    LET en == Chip_read(c, "G1", nts) = 1 /\ Chip_read(c, "~G2A", nts) = 0
        idx == ReadSum(c, <<"A", "B", "C">>, 1, nts)
    IN  [c EXCEPT !.out_states = Decode(Y8, en, idx)]

\* IC_74HC138.eval
Eval138(c, nts) ==
    LET en == /\ Chip_read(c, "G1", nts) = 1
              /\ Chip_read(c, "~G2A", nts) = 0
              /\ Chip_read(c, "~G2B", nts) = 0
        idx == ReadSum(c, <<"A", "B", "C">>, 1, nts)
    IN  [c EXCEPT !.out_states = Decode(Y8, en, idx)]

\* IC_74HC154.eval
Eval154(c, nts) ==
    LET en == Chip_read(c, "~G1", nts) = 0 /\ Chip_read(c, "~G2", nts) = 0
        idx == ReadSum(c, ABCD, 1, nts)
    IN  [c EXCEPT !.out_states = Decode(Y16, en, idx)]

\* the two inputs of gate i (1..4) of a quad gate pack
GateA(c, i, nts) == Chip_read(c, GateIn[2 * i - 1], nts)
GateB(c, i, nts) == Chip_read(c, GateIn[2 * i], nts)

\* IC_74HC08.eval
Eval08(c, nts) ==
    [c EXCEPT !.out_states =
        [p \in Range(GateOut) |->
            LET i == PinIndex(GateOut, p)
            IN  BitAnd(GateA(c, i, nts), GateB(c, i, nts))]]

\* IC_74HC32.eval
Eval32(c, nts) ==
    [c EXCEPT !.out_states =
        [p \in Range(GateOut) |->
            LET i == PinIndex(GateOut, p)
            IN  BitOr(GateA(c, i, nts), GateB(c, i, nts))]]

\* IC_74HC00.eval
Eval00(c, nts) ==
    [c EXCEPT !.out_states =
        [p \in Range(GateOut) |->
            LET i == PinIndex(GateOut, p)
            IN  1 - BitAnd(GateA(c, i, nts), GateB(c, i, nts))]]

\* self.mem[a] of the bytearray, all zero after construction: mem holds the
\* nonzero bytes
MemAt(mem, a) == IF a \in DOMAIN mem THEN mem[a] ELSE 0

\* self.mem[a] = v
MemStore(mem, a, v) ==
    [x \in (DOMAIN mem \ {a}) \cup (IF v = 0 THEN {} ELSE {a}) |->
        IF x = a THEN v ELSE mem[x]]

\* mutant: the write branch is missing
EvalMem_ro(c, nts) ==
    LET ce == Chip_read(c, "~CE", nts)
        oe == Chip_read(c, "~OE", nts)
        we == Chip_read(c, "~WE", nts)
        addr == ReadSum(c, A15, 1, nts)
    IN  [c EXCEPT !.out_states =
                        IF ce = 0 /\ oe = 0 /\ we = 1
                        THEN WriteBits(QPins, MemAt(c.mem, addr))
                        ELSE WriteZ(QPins)]

\* mutant: the read branch does not test ~WE
EvalMem_wrout(c, nts) ==
    LET ce == Chip_read(c, "~CE", nts)
        oe == Chip_read(c, "~OE", nts)
        we == Chip_read(c, "~WE", nts)
        addr == ReadSum(c, A15, 1, nts)
        m == IF ce = 0 /\ we = 0
             THEN MemStore(c.mem, addr, ReadSum(c, DPins, 1, nts))
             ELSE c.mem
    IN  [c EXCEPT !.mem = m,
                  !.out_states =
                        IF ce = 0 /\ oe = 0
                        THEN WriteBits(QPins, MemAt(m, addr))
                        ELSE WriteZ(QPins)]

\* IC_28C256.eval, inherited by IC_62256
EvalMem(c, nts) ==
    LET ce == Chip_read(c, "~CE", nts)
        oe == Chip_read(c, "~OE", nts)
        we == Chip_read(c, "~WE", nts)
        addr == ReadSum(c, A15, 1, nts)
        m == IF ce = 0 /\ we = 0
             THEN MemStore(c.mem, addr, ReadSum(c, DPins, 1, nts))
             ELSE c.mem
    IN  [c EXCEPT !.mem = m,
                  !.out_states =
                        IF ce = 0 /\ oe = 0 /\ we = 1
                        THEN WriteBits(QPins, MemAt(m, addr))
                        ELSE WriteZ(QPins)]

\* mutant: the subtract carry is set when the operands are equal as well
EvalALU_borrow(c, nts) ==
    LET a == ReadSum(c, A8, 1, nts)
        b == ReadSum(c, B8, 1, nts)
        op == ReadSum(c, OP3, 1, nts)
        raw == CASE op = 0 -> a + b
                 [] op = 1 -> a - b
                 [] op = 2 -> BitAnd(a, b)
                 [] op = 3 -> BitOr(a, b)
                 [] op = 4 -> BitXor(a, b)
                 [] op = 5 -> 255 - a
                 [] op = 6 -> (a * 2) % 256
                 [] op = 7 -> (a \div 2) % 256
                 [] OTHER -> 0
        carry == CASE op = 0 -> IF raw > 255 THEN 1 ELSE 0
                   [] op = 1 -> IF raw <= 0 THEN 1 ELSE 0
                   [] op = 6 -> Bit(a, 7)
                   [] op = 7 -> Bit(a, 0)
                   [] OTHER -> 0
        res == raw % 256
    IN  [c EXCEPT !.out_states =
            (IF Chip_read(c, "~OE", nts) = 0
             THEN WriteBits(QPins, res) ELSE WriteZ(QPins))
            @@ ("Z" :> IF res = 0 THEN 1 ELSE 0)
            @@ ("C" :> carry)
            @@ ("N" :> Bit(res, 7))]

\* GAL_ALU.eval
EvalALU(c, nts) ==
    LET a == ReadSum(c, A8, 1, nts)
        b == ReadSum(c, B8, 1, nts)
        op == ReadSum(c, OP3, 1, nts)
        raw == CASE op = 0 -> a + b
                 [] op = 1 -> a - b
                 [] op = 2 -> BitAnd(a, b)
                 [] op = 3 -> BitOr(a, b)
                 [] op = 4 -> BitXor(a, b)
                 [] op = 5 -> 255 - a
                 [] op = 6 -> (a * 2) % 256
                 [] op = 7 -> (a \div 2) % 256
                 [] OTHER -> 0
        carry == CASE op = 0 -> IF raw > 255 THEN 1 ELSE 0
                   [] op = 1 -> IF raw < 0 THEN 1 ELSE 0
                   [] op = 6 -> Bit(a, 7)
                   [] op = 7 -> Bit(a, 0)
                   [] OTHER -> 0
        res == raw % 256
    IN  [c EXCEPT !.out_states =
            (IF Chip_read(c, "~OE", nts) = 0
             THEN WriteBits(QPins, res) ELSE WriteZ(QPins))
            @@ ("Z" :> IF res = 0 THEN 1 ELSE 0)
            @@ ("C" :> carry)
            @@ ("N" :> Bit(res, 7))]

\* mutant: eval() of the up counter counts
Chip_eval_count(c, nts) ==
    CASE c.part_name = "74HC574" -> Eval574(c, nts)
      [] c.part_name = "74HC161" ->
            Eval161([c EXCEPT !.val = (@ + 1) % 16], nts)
      [] c.part_name = "74HC193" -> Eval193(c, nts)
      [] c.part_name = "74HC245" -> Eval245(c, nts)
      [] c.part_name = "74HC283" -> Eval283(c, nts)
      [] c.part_name = "74HC138" -> Eval138(c, nts)
      [] c.part_name = "74HC154" -> Eval154(c, nts)
      [] c.part_name = "74HC04" -> Eval04(c, nts)
      [] c.part_name = "74HC08" -> Eval08(c, nts)
      [] c.part_name = "74HC32" -> Eval32(c, nts)
      [] c.part_name = "74HC00" -> Eval00(c, nts)
      [] c.part_name \in {"28C256", "62256"} -> EvalMem(c, nts)
      [] c.part_name = "GAL22V10" -> EvalALU(c, nts)
      [] OTHER -> c

\* chip.eval(), dispatched on the chip's class
Chip_eval(c, nts) ==
    CASE c.part_name = "74HC574" -> Eval574(c, nts)
      [] c.part_name = "74HC161" -> Eval161(c, nts)
      [] c.part_name = "74HC193" -> Eval193(c, nts)
      [] c.part_name = "74HC245" -> Eval245(c, nts)
      [] c.part_name = "74HC283" -> Eval283(c, nts)
      [] c.part_name = "74HC138" -> Eval138(c, nts)
      [] c.part_name = "74HC154" -> Eval154(c, nts)
      [] c.part_name = "74HC04" -> Eval04(c, nts)
      [] c.part_name = "74HC08" -> Eval08(c, nts)
      [] c.part_name = "74HC32" -> Eval32(c, nts)
      [] c.part_name = "74HC00" -> Eval00(c, nts)
      [] c.part_name \in {"28C256", "62256"} -> EvalMem(c, nts)
      [] c.part_name = "GAL22V10" -> EvalALU(c, nts)
      [] OTHER -> c

\* mutant: tick() of the register refreshes its outputs as well
Chip_tick_refresh(c, nts) ==
    CASE c.part_name = "74HC574" -> Eval574(Tick574(c, nts), nts)
      [] c.part_name = "74HC161" -> Tick161(c, nts)
      [] c.part_name = "74HC193" -> Tick193(c, nts)
      [] OTHER -> c

\* chip.tick(), dispatched on the chip's class; Chip.tick is `pass`
Chip_tick(c, nts) ==
    CASE c.part_name = "74HC574" -> Tick574(c, nts)
      [] c.part_name = "74HC161" -> Tick161(c, nts)
      [] c.part_name = "74HC193" -> Tick193(c, nts)
      [] OTHER -> c

-----------------------------------------------------------------------------
(* System: construction API *)

NewSystem == [nets |-> [n \in {} |-> NewNet(None)], order |-> <<>>,
              chips |-> <<>>, wiring_log |-> <<>>]

\* mutant: every call makes a fresh Net under the name
SysNet_replace(s, name, pull) ==
    [s EXCEPT !.nets = (name :> NewNet(pull)) @@ s.nets,
              !.order = IF name \in DOMAIN s.nets THEN @ ELSE Append(@, name)]

\* System.net
SysNet(s, name, pull) ==
    IF name \in DOMAIN s.nets THEN s
    ELSE [s EXCEPT !.nets = (name :> NewNet(pull)) @@ s.nets,
                   !.order = Append(@, name)]

\* System.add
SysAdd(s, part, ref) == [s EXCEPT !.chips = Append(@, NewChip(part, ref))]

\* mutant: the pin name is not checked
SysWire_lax(s, j, pin, name) ==
    LET s1 == SysNet(s, name, None)
        part == s1.chips[j].part_name
    IN  [s1 EXCEPT
            !.chips[j].connections = (pin :> name) @@ @,
            !.wiring_log = Append(@, <<j, pin, name>>),
            !.nets[name].drivers =
                IF pin \in Outputs(part)
                THEN Append(@, PinDriver(j, pin)) ELSE @]

\* System.wire(chip j, pin, sys.net(name)); a pin the chip lacks raises and
\* changes nothing
SysWire(s, j, pin, name) ==
    LET s1 == SysNet(s, name, None)
        part == s1.chips[j].part_name
    IN  IF pin \notin Inputs(part) /\ pin \notin Outputs(part) THEN s1
        ELSE [s1 EXCEPT
                !.chips[j].connections = (pin :> name) @@ @,
                !.wiring_log = Append(@, <<j, pin, name>>),
                !.nets[name].drivers =
                    IF pin \in Outputs(part)
                    THEN Append(@, PinDriver(j, pin)) ELSE @]

\* sys.net(name).drivers.append(lambda ...), as build_cpu and run_sim do
SysDrive(s, name, d) ==
    LET s1 == SysNet(s, name, None)
    IN  [s1 EXCEPT !.nets[name].drivers = Append(@, d)]

-----------------------------------------------------------------------------
(* System: eval_combinational *)

\* the nets as they would be if the pins that chip j, evaluated to c,
\* drives took their value at once
Seen(nts, j, c) ==
    [n \in DOMAIN nts |->
        LET ps == {p \in DOMAIN c.out_states :
                      /\ c.out_states[p] # HiZ
                      /\ PinDriver(j, p) \in Range(nts[n].drivers)}
        IN  IF ps = {} THEN nts[n]
            ELSE [nts[n] EXCEPT !.state = c.out_states[CHOOSE p \in ps : TRUE]]]

RECURSIVE EvalFrom(_, _, _)
\* mutant: a chip's eval() reads what the chips evaluated before it in the
\* pass drive
EvalFrom(chs, nts, j) ==
    IF j > Len(chs) THEN chs
    ELSE LET c == Chip_eval(chs[j], nts)
         IN  EvalFrom([chs EXCEPT ![j] = c], Seen(nts, j, c), j + 1)

EvalChips_seen(chs, nts) == EvalFrom(chs, nts, 1)

\* for chip in self.chips: chip.eval()
EvalChips(chs, nts) == [j \in 1..Len(chs) |-> Chip_eval(chs[j], nts)]

\* for net in self.nets.values(): net.eval(); net.apply()
EvalNets(nts, chs, clk, ex) ==
    [n \in DOMAIN nts |-> Net_apply(Net_eval(nts[n], chs, clk, ex)).net]

\* mutant: `changed = net.apply()`, so only one net's answer is kept
Changed_one(nts, chs, clk, ex) ==
    LET n == CHOOSE m \in DOMAIN nts : TRUE
    IN  Net_apply(Net_eval(nts[n], chs, clk, ex)).changed

\* mutant: `changed = False` stands before the loop, not inside it, so a
\* change of an earlier pass keeps the flag up
Changed_sticky(nts, chs, clk, ex) ==
    \/ iter > 0
    \/ \E n \in DOMAIN nts : Net_apply(Net_eval(nts[n], chs, clk, ex)).changed

\* the `changed` flag of one pass: some net.apply() returned True
Changed(nts, chs, clk, ex) ==
    \E n \in DOMAIN nts : Net_apply(Net_eval(nts[n], chs, clk, ex)).changed

NetStates(nts) == [n \in DOMAIN nts |-> nts[n].state]

\* one more pass (all chips, then all nets) would leave every net state as it is
FixedPoint(nts, chs, clk, ex) ==
    NetStates(EvalNets(nts, EvalChips(chs, nts), clk, ex)) = NetStates(nts)

\* System.get_bus_val over the nets named by `names`
RECURSIVE get_bus_val(_, _, _)
get_bus_val(nts, names, i) ==
    IF i > Len(names) THEN 0
    ELSE (IF nts[names[i]].state = 1 THEN 2 ^ (i - 1) ELSE 0)
         + get_bus_val(nts, names, i + 1)

-----------------------------------------------------------------------------
(* Test benches: the construction calls a harness makes, in order *)

\* sys.net(name, pull)
NetCall(name, pull) ==
    [op |-> "net", chip |-> 0, pin |-> "", name |-> name, pull |-> pull,
     drv |-> ConstDriver(0)]
\* sys.add(Part(ref))
AddCall(part, ref) ==
    [op |-> "add", chip |-> 0, pin |-> part, name |-> ref, pull |-> None,
     drv |-> ConstDriver(0)]
\* sys.wire(chip j, pin, sys.net(name))
WireCall(j, pin, name) ==
    [op |-> "wire", chip |-> j, pin |-> pin, name |-> name, pull |-> None,
     drv |-> ConstDriver(0)]
\* sys.net(name).drivers.append(lambda ...)
DriveCall(name, d) ==
    [op |-> "drive", chip |-> 0, pin |-> "", name |-> name, pull |-> None,
     drv |-> d]

Do(s, c) ==
    CASE c.op = "net" -> SysNet(s, c.name, c.pull)
      [] c.op = "add" -> SysAdd(s, c.pin, c.name)
      [] c.op = "wire" -> SysWire(s, c.chip, c.pin, c.name)
      [] c.op = "drive" -> SysDrive(s, c.name, c.drv)

\* for i in range(n): wire(chip j, pins[i], names[i])
WireBus(j, pins, names) ==
    [i \in 1..Len(pins) |-> WireCall(j, pins[i], names[i])]

\* one harness lambda per net of a bus, reading bit i of attribute var
DriveBus(names, var) ==
    [i \in 1..Len(names) |-> DriveCall(names[i], BitDriver(var, i - 1))]

\* one 8-bit register: D from the harness data bus, ~OE from the harness
BenchReg ==
    <<NetCall("CLK", 0), AddCall("74HC574", "U1"), WireCall(1, "CLK", "CLK"),
      DriveCall("OE", VarDriver("oe")), WireCall(1, "~OE", "OE")>>
    \o DriveBus(Names("DATA", 8), "data")
    \o WireBus(1, DPins, Names("DATA", 8))
    \o WireBus(1, QPins, Names("Q", 8))

\* two registers on the same clock and data bus, outputs always enabled
BenchReg2 ==
    <<NetCall("CLK", 0), AddCall("74HC574", "U1"), AddCall("74HC574", "U2"),
      WireCall(1, "CLK", "CLK"), WireCall(2, "CLK", "CLK")>>
    \o DriveBus(Names("DATA", 8), "data")
    \o WireBus(1, DPins, Names("DATA", 8))
    \o WireBus(2, DPins, Names("DATA", 8))
    \o WireBus(1, QPins, Names("Q", 8))
    \o WireBus(2, QPins, Names("R", 8))

\* ChainLen inverters of one 74HC04 in series behind the harness input N0:
\* inverter i takes net N(i-1) and drives net N(i)
BenchChain ==
    <<AddCall("74HC04", "U1"), DriveCall("N0", VarDriver("in"))>>
    \o WireBus(1, SubSeq(APins, 1, ChainLen), Names("N", ChainLen))
    \o WireBus(1, SubSeq(YPins, 1, ChainLen),
               [i \in 1..ChainLen |-> "N" \o ToString(i)])

\* an inverter whose output net feeds its own input, beside a plain one
BenchLoop ==
    <<AddCall("74HC04", "U1"),
      WireCall(1, "1A", "X"), WireCall(1, "1Y", "X"),
      DriveCall("IN", VarDriver("in")),
      WireCall(1, "2A", "IN"), WireCall(1, "2Y", "OUT")>>

\* two inverter outputs wired to the same net X
BenchContend ==
    <<AddCall("74HC04", "U1"),
      DriveCall("IN1", VarDriver("in1")), WireCall(1, "1A", "IN1"),
      DriveCall("IN2", VarDriver("in2")), WireCall(1, "2A", "IN2"),
      WireCall(1, "1Y", "X"), WireCall(1, "2Y", "X")>>

NetVars == [i \in 1..NumDrivers |-> "d" \o ToString(i)]

DriveAll(name) == [i \in 1..NumDrivers |-> DriveCall(name, VarDriver(NetVars[i]))]

\* bare nets of every pull: P* with NumDrivers harness drivers, F* with none
BenchNet ==
    <<NetCall("PN", None), NetCall("P0", 0), NetCall("P1", 1)>>
    \o DriveAll("PN") \o DriveAll("P0") \o DriveAll("P1")
    \o <<NetCall("FN", None), NetCall("F0", 0), NetCall("F1", 1)>>

\* a register wired on its clock, then on a pin it does not have
BenchBadPin ==
    <<AddCall("74HC574", "U1"), WireCall(1, "CLK", "CLK"),
      WireCall(1, "Q0", "BUS0"), WireCall(1, "Q8", "BUS8"),
      WireCall(1, "Q1", "BUS1")>>

\* the chip classes of the catalog, and the NAND pack build_cpu declares
Catalog == {"74HC574", "74HC161", "74HC193", "74HC245", "74HC283", "74HC138",
            "74HC154", "74HC04", "74HC08", "74HC32", "74HC00", "28C256",
            "62256", "GAL22V10"}

\* two adders cascaded as U_ADD1 and U_ADD2 of build_cpu: the low adder's C0
\* on GND, its C4 net on the high adder's C0; the operands x and y come from
\* the harness, the sum goes to nets SUM0..SUM7 and the carry to COUT
BenchAdder8 ==
    <<NetCall("GND", 0), DriveCall("GND", ConstDriver(0)),
      AddCall("74HC283", "U_ADD1"), AddCall("74HC283", "U_ADD2"),
      WireCall(1, "C0", "GND"), WireCall(1, "C4", "ADD1_C4"),
      WireCall(2, "C0", "ADD1_C4"), WireCall(2, "C4", "COUT")>>
    \o DriveBus(Names("X", 8), "x") \o DriveBus(Names("Y", 8), "y")
    \o WireBus(1, A4, SubSeq(Names("X", 8), 1, 4))
    \o WireBus(1, B4, SubSeq(Names("Y", 8), 1, 4))
    \o WireBus(2, A4, SubSeq(Names("X", 8), 5, 8))
    \o WireBus(2, B4, SubSeq(Names("Y", 8), 5, 8))
    \o WireBus(1, S4, SubSeq(Names("SUM", 8), 1, 4))
    \o WireBus(2, S4, SubSeq(Names("SUM", 8), 5, 8))

\* an inverter pack with pins left unwired: inverters 1 and 3 are wired on
\* both sides, inverter 2 on its output only, to nets of the pins' names
BenchPartial ==
    <<AddCall("74HC04", "U1"), WireCall(1, "1A", "1A"), WireCall(1, "3A", "3A"),
      WireCall(1, "1Y", "1Y"), WireCall(1, "2Y", "2Y"), WireCall(1, "3Y", "3Y")>>

\* net N is asked for three times with three pulls, before and after an
\* inverter output is wired to it
BenchRenet ==
    <<NetCall("N", 1), NetCall("N", 0), AddCall("74HC04", "U1"),
      DriveCall("IN", VarDriver("in")), WireCall(1, "1A", "IN"),
      WireCall(1, "1Y", "N"), NetCall("N", None)>>

\* the names the harness asks System.net for between calls
NetNames == {"N", "IN", "P", "Q"}

\* n inverters in series behind the harness input N0, six to a 74HC04:
\* inverter i takes net N(i-1) and drives net N(i); no net feeds back
InvChip(i) == ((i - 1) \div Len(APins)) + 1
InvPin(i) == ((i - 1) % Len(APins)) + 1
BenchSeries(n) ==
    [j \in 1..InvChip(n) |-> AddCall("74HC04", "U" \o ToString(j))]
    \o <<DriveCall("N0", VarDriver("in"))>>
    \o [i \in 1..n |-> WireCall(InvChip(i), APins[InvPin(i)],
                                "N" \o ToString(i - 1))]
    \o [i \in 1..n |-> WireCall(InvChip(i), YPins[InvPin(i)],
                                "N" \o ToString(i))]

\* the chains of inverters. A change of the harness input reaches net N0 in
\* the first pass and net N(i) in pass i + 1, and the call returns in the
\* pass after the last change: "shallow" is the longest chain whose last
\* change leaves one of the 30 passes over, "deep" is one inverter longer
SeriesLen(b) ==
    CASE b = "chain" -> ChainLen
      [] b = "shallow" -> MaxPasses - 2
      [] b = "deep" -> MaxPasses - 1

\* two registers on one clock, outputs enabled as build_cpu enables the
\* instruction register, each one's Q nets on the other's D pins
BenchSwap ==
    <<NetCall("CLK", 0), NetCall("GND", 0), DriveCall("GND", ConstDriver(0)),
      AddCall("74HC574", "U1"), AddCall("74HC574", "U2"),
      WireCall(1, "CLK", "CLK"), WireCall(2, "CLK", "CLK"),
      WireCall(1, "~OE", "GND"), WireCall(2, "~OE", "GND")>>
    \o WireBus(1, QPins, Names("X", 8))
    \o WireBus(2, QPins, Names("Y", 8))
    \o WireBus(1, DPins, Names("Y", 8))
    \o WireBus(2, DPins, Names("X", 8))

\* three inverters of two chips in a ring, which never settles
BenchRing ==
    <<AddCall("74HC04", "U1"), AddCall("74HC04", "U2"),
      WireCall(1, "1A", "R0"), WireCall(1, "1Y", "R1"),
      WireCall(2, "1A", "R1"), WireCall(2, "1Y", "R2"),
      WireCall(1, "2A", "R2"), WireCall(1, "2Y", "R0")>>

\* the stack-pointer tracker of build_cpu: U_SP0 counts on the NANDs of
\* CLK with SP_INC (CTRL15) and SP_DEC (CTRL16), which are bits 0 and 1 of
\* the harness's ctl; U_SP1 counts on U_SP0's ~CO and ~BO; CLR on GND,
\* ~LOAD held high
BenchUpDown ==
    <<NetCall("CLK", 0),
      NetCall("GND", 0), DriveCall("GND", ConstDriver(0)),
      NetCall("VCC", 1), DriveCall("VCC", ConstDriver(1)),
      AddCall("74HC193", "U_SP0"), AddCall("74HC193", "U_SP1"),
      AddCall("74HC00", "U_NAND_SP"),
      DriveCall("CTRL15", BitDriver("ctl", 0)),
      DriveCall("CTRL16", BitDriver("ctl", 1)),
      WireCall(3, "1A", "CTRL15"), WireCall(3, "1B", "CLK"),
      WireCall(3, "1Y", "SP_UP_NAND"),
      WireCall(3, "2A", "CTRL16"), WireCall(3, "2B", "CLK"),
      WireCall(3, "2Y", "SP_DN_NAND"),
      WireCall(1, "UP", "SP_UP_NAND"), WireCall(1, "DOWN", "SP_DN_NAND"),
      WireCall(1, "~CO", "SP0_CO"), WireCall(1, "~BO", "SP0_BO"),
      WireCall(2, "UP", "SP0_CO"), WireCall(2, "DOWN", "SP0_BO"),
      WireCall(1, "CLR", "GND"), WireCall(1, "~LOAD", "VCC"),
      WireCall(2, "CLR", "GND"), WireCall(2, "~LOAD", "VCC")>>

\* the RAM of build_cpu: ~CE on the inverter of address line 15, ~WE on the
\* net ~MEM_WE, D and Q on the data bus, ~OE held high; the harness drives
\* ADDR15, ~MEM_WE and data line 0
BenchMemSys ==
    <<NetCall("VCC", 1), DriveCall("VCC", ConstDriver(1)),
      NetCall("ADDR0", 0), NetCall("ADDR15", 0),
      AddCall("62256", "U_RAM"), AddCall("74HC04", "U_INV_A15"),
      DriveCall("ADDR15", VarDriver("a15")),
      WireCall(2, "4A", "ADDR15"), WireCall(2, "4Y", "~A15"),
      WireCall(1, "~CE", "~A15"), WireCall(1, "~OE", "VCC"),
      DriveCall("~MEM_WE", VarDriver("we")), WireCall(1, "~WE", "~MEM_WE"),
      WireCall(1, "A0", "ADDR0"),
      NetCall("DATA0", 0), DriveCall("DATA0", VarDriver("din"))>>
    \o WireBus(1, DPins, Names("DATA", 8))
    \o WireBus(1, QPins, Names("DATA", 8))

\* the clocks of build_cpu: a register U9 on CLK, where build_cpu has its
\* IP counters, and the micro-step counter U2 on ~CLK, the output of the
\* clock inverter UINV1; the register takes the harness's data, the counter
\* is enabled to count
BenchClocks ==
    <<NetCall("CLK", 0),
      NetCall("GND", 0), DriveCall("GND", ConstDriver(0)),
      NetCall("VCC", 1), DriveCall("VCC", ConstDriver(1)),
      AddCall("74HC04", "UINV1"), AddCall("74HC574", "U9"),
      AddCall("74HC161", "U2"),
      WireCall(3, "CLK", "~CLK"), WireCall(3, "~CLR", "VCC"),
      WireCall(3, "ENT", "VCC"), WireCall(3, "ENP", "VCC"),
      WireCall(3, "~LOAD", "VCC"),
      WireCall(2, "CLK", "CLK"), WireCall(2, "~OE", "GND"),
      WireCall(1, "1A", "CLK"), WireCall(1, "1Y", "~CLK")>>
    \o DriveBus(Names("DATA", 8), "data")
    \o WireBus(2, DPins, Names("DATA", 8))
    \o WireBus(2, QPins, Names("IR_Q", 8))
    \o WireBus(3, QABCD, Names("uIP_Q", 4))

\* the source side of build_cpu: the source decoder, always enabled, and two
\* of the registers add_reg makes, each one's ~OE on the pull-less net of a
\* decoder output, D and Q of both on the data bus
BenchSource ==
    <<NetCall("GND", 0), DriveCall("GND", ConstDriver(0)),
      AddCall("74HC154", "U5"),
      AddCall("74HC574", "U_A"), AddCall("74HC574", "U_B"),
      WireCall(1, "~G1", "GND"), WireCall(1, "~G2", "GND"),
      DriveCall("CTRL0", BitDriver("ctl", 0)),
      DriveCall("CTRL1", BitDriver("ctl", 1)),
      WireCall(1, "~Y1", "~A_OE"), WireCall(1, "~Y2", "~B_OE"),
      WireCall(2, "CLK", "A_CLK"), WireCall(2, "~OE", "~A_OE"),
      WireCall(3, "CLK", "B_CLK"), WireCall(3, "~OE", "~B_OE")>>
    \o WireBus(1, ABCD, Names("CTRL", 4))
    \o [i \in 1..8 |-> NetCall(Names("DATA", 8)[i], 0)]
    \o WireBus(2, DPins, Names("DATA", 8))
    \o WireBus(2, QPins, Names("DATA", 8))
    \o WireBus(3, DPins, Names("DATA", 8))
    \o WireBus(3, QPins, Names("DATA", 8))

\* the benches of one chip whose methods the harness calls directly
UnitBenches == Catalog \cup {"partial"}

\* one chip of a class, every pin wired to a net of the pin's name
UnitScript(part) ==
    <<AddCall(part, "U1")>>
    \o WireBus(1, InputPins(part), InputPins(part))
    \o WireBus(1, OutputPins(part), OutputPins(part))

Benches == {"reg", "reg2", "chain", "loop", "contend", "net", "badpin"}

Script(b) ==
    CASE b = "reg" -> BenchReg
      [] b = "reg2" -> BenchReg2
      [] b = "chain" -> BenchChain
      [] b = "loop" -> BenchLoop
      [] b = "contend" -> BenchContend
      [] b = "net" -> BenchNet
      [] b = "badpin" -> BenchBadPin
      [] b = "partial" -> BenchPartial
      [] b = "adder8" -> BenchAdder8
      [] b = "renet" -> BenchRenet
      [] b = "swap" -> BenchSwap
      [] b = "ring" -> BenchRing
      [] b = "updown" -> BenchUpDown
      [] b = "memsys" -> BenchMemSys
      [] b = "clocks" -> BenchClocks
      [] b = "srcdec" -> BenchSource
      [] b \in {"shallow", "deep"} -> BenchSeries(SeriesLen(b))
      [] OTHER -> UnitScript(b)

\* the attributes the harness lambdas read, with their first values
ExtInit(b) ==
    CASE b = "reg" -> [data |-> 0, oe |-> 0]
      [] b = "reg2" -> [data |-> 0]
      [] b = "chain" -> [in |-> 0]
      [] b = "loop" -> [in |-> 0]
      [] b = "contend" -> [in1 |-> 0, in2 |-> 0]
      [] b = "net" -> [v \in Range(NetVars) |-> HiZ]
      [] b = "adder8" -> [x |-> 0, y |-> 0]
      [] b = "renet" -> [in |-> 0]
      [] b = "updown" -> [ctl |-> 0]
      [] b = "srcdec" -> [ctl |-> 0]
      [] b = "clocks" -> [data |-> 0]
      [] b = "memsys" -> [a15 |-> 0, we |-> 1, din |-> 0]
      [] b \in {"shallow", "deep"} -> [in |-> 0]
      [] OTHER -> [v \in {} |-> 0]

\* the values the harness may give them
ExtValues(b, var) ==
    CASE var = "data" -> Bytes
      [] var \in {"x", "y"} -> OpBytes
      [] var = "ctl" -> {0, 1, 2}
      [] b = "net" -> {0, 1, HiZ, None}
      [] OTHER -> {0, 1}

\* the nets the harness may assign by hand, as check.py does
Forceable(b) ==
    CASE b = "net" -> {"FN", "F0", "F1"}
      [] b = "reg" -> {"CLK"}
      [] b = "chain" -> {"N1"}
      [] OTHER -> {}

-----------------------------------------------------------------------------
(* The state after System() *)

NoSnap == [valid |-> FALSE, conv |-> FALSE, warned |-> FALSE, passes |-> 0,
           states |-> <<>>]

NoSub == [ph |-> "none", idx |-> 0]

NoChip == NewChip("", "")

NoWrite == [valid |-> FALSE, addr |-> 0, data |-> 0, age |-> 0]

\* no Assembler has been made, no opcode decoded
NoAssembler == [phase |-> "none"]
NoCpu == [opcode |-> None]

\* no second System has been built
NoTwin == [nets |-> NewSystem.nets, order |-> <<>>, chips |-> <<>>,
           wiring_log |-> <<>>, clk_val |-> None, built |-> 0]

\* a System under construction as bench b
Hardware(b) ==
    /\ bench = b
    /\ nets = NewSystem.nets
    /\ order = NewSystem.order
    /\ chips = NewSystem.chips
    /\ wiring_log = NewSystem.wiring_log
    /\ built = 0
    /\ clk_val = None
    /\ ext = ExtInit(b)
    /\ pc = "setup"
    /\ tstep = 0
    /\ iter = 0
    /\ k = 0
    /\ warning = FALSE
    /\ reports = {}
    /\ log = <<>>
    /\ snap = NoSnap
    /\ forced = {}
    /\ sub = NoSub
    /\ changed = FALSE
    /\ ret = FALSE
    /\ error = <<>>
    /\ before = NoChip
    /\ call = "none"
    /\ wrote = NoWrite
    /\ twin = NoTwin

InitBench(b) == Hardware(b) /\ asm = NoAssembler /\ cpu = NoCpu

Init == \E b \in Benches : InitBench(b)

-----------------------------------------------------------------------------
(* Construction *)

\* the ValueError of System.wire: its message names the pin, the chip's ref
\* and its part name
WireError(s, j, pin) ==
    LET c == s.chips[j]
    IN  IF pin \notin Inputs(c.part_name) /\ pin \notin Outputs(c.part_name)
        THEN <<<<pin, c.ref, c.part_name>>>>
        ELSE <<>>

\* what the construction call c raises on System s
Raised(s, c) == IF c.op = "wire" THEN WireError(s, c.chip, c.pin) ELSE <<>>

\* the harness makes the next construction call of its script; after the
\* last one the System is ready for eval_combinational() and tick(); a call
\* that raises ends the script
Setup ==
    /\ pc = "setup"
    /\ built < Len(Script(bench))
    /\ LET s0 == [nets |-> nets, order |-> order, chips |-> chips,
                  wiring_log |-> wiring_log]
           c == Script(bench)[built + 1]
           s == Do(s0, c)
       IN  /\ nets' = s.nets
           /\ order' = s.order
           /\ chips' = s.chips
           /\ wiring_log' = s.wiring_log
           /\ error' = Raised(s0, c)
           /\ pc' = IF Raised(s0, c) # <<>> THEN "raised"
                    ELSE IF built + 1 = Len(Script(bench)) THEN "idle"
                    ELSE "setup"
    /\ built' = built + 1
    /\ UNCHANGED <<clk_val, ext, tstep, iter, k, warning, reports, log, snap,
                   forced, bench, fine, unit, tools>>

-----------------------------------------------------------------------------
(* System.tick and System.eval_combinational, statement by statement *)

\* mutant: the chips tick before the nets have settled on the new clock
TickBody_early == <<"clk1", "ticks", "settle", "settle",
                    "clk0", "ticks", "settle", "settle", "settle">>

\* the body of System.tick after the hasattr block
TickBody == <<"clk1", "settle", "ticks", "settle",
              "clk0", "settle", "ticks", "settle", "settle">>

RECURSIVE NextStmt(_, _)
\* the statement that runs after statement t of tick(): an empty
\* `for chip in self.chips` loop runs no tick at all
NextStmt(t, n) ==
    IF t = 0 \/ t >= Len(TickBody) THEN 0
    ELSE IF TickBody[t + 1] = "ticks" /\ n = 0 THEN NextStmt(t + 1, n)
    ELSE t + 1

PcOf(t) == IF t = 0 THEN "idle" ELSE TickBody[t]

\* control moves past the running statement
Advance ==
    LET t == NextStmt(tstep, Len(chips))
    IN  /\ tstep' = t
        /\ pc' = PcOf(t)
        /\ forced' = IF t = 0 THEN {} ELSE forced

Event(e, j) == [ev |-> e, chip |-> j]

\* a caller invokes System.eval_combinational()
CallEval ==
    /\ pc = "idle"
    /\ pc' = "settle"
    /\ iter' = 0
    /\ warning' = FALSE
    /\ reports' = {}
    /\ log' = <<>>
    /\ UNCHANGED <<nets, order, chips, clk_val, ext, tstep, k, snap, forced,
                   setup, fine, unit, error, tools>>

\* a caller invokes System.tick(): the first call creates clk_val and
\* appends its driver to net CLK
CallTick ==
    /\ pc = "idle"
    /\ IF clk_val = None
       THEN LET s == SysDrive([nets |-> nets, order |-> order, chips |-> chips,
                               wiring_log |-> wiring_log], "CLK", ClkDriver)
            IN  /\ clk_val' = 0
                /\ nets' = s.nets
                /\ order' = s.order
       ELSE UNCHANGED <<clk_val, nets, order>>
    /\ pc' = "clk1"
    /\ tstep' = 1
    /\ iter' = 0
    /\ k' = 0
    /\ warning' = FALSE
    /\ reports' = {}
    /\ log' = <<>>
    /\ UNCHANGED <<chips, ext, snap, forced, setup, fine, unit, error, tools>>

\* self.clk_val = 1 / self.clk_val = 0
SetClk ==
    /\ pc \in {"clk1", "clk0"}
    /\ clk_val' = IF pc = "clk1" THEN 1 ELSE 0
    /\ log' = Append(log, Event(pc, 0))
    /\ snap' = NoSnap
    /\ iter' = 0
    /\ Advance
    /\ UNCHANGED <<nets, order, chips, ext, k, warning, reports, setup, fine, unit, error, tools>>

\* mutant: the loop falls out of its 30 passes without printing
PassEnd_silent(chg, nts) ==
    IF ~chg \/ iter + 1 = MaxPasses
    THEN /\ warning' = warning
         /\ snap' = [valid |-> TRUE, conv |-> ~chg, warned |-> FALSE,
                     passes |-> iter + 1, states |-> NetStates(nts)]
         /\ log' = Append(log, Event("settle", 0))
         /\ iter' = 0
         /\ Advance
    ELSE /\ iter' = iter + 1
         /\ UNCHANGED <<warning, snap, log, pc, tstep, forced>>

\* the end of one pass: `if not changed: return`, the next pass, or the
\* print after the 30th pass
PassEnd(chg, nts) ==
    IF ~chg \/ iter + 1 = MaxPasses
    THEN /\ warning' = (warning \/ chg)
         /\ snap' = [valid |-> TRUE, conv |-> ~chg, warned |-> chg,
                     passes |-> iter + 1, states |-> NetStates(nts)]
         /\ log' = Append(log, Event("settle", 0))
         /\ iter' = 0
         /\ Advance
    ELSE /\ iter' = iter + 1
         /\ UNCHANGED <<warning, snap, log, pc, tstep, forced>>

\* one whole pass of the loop of eval_combinational
SettlePass ==
    /\ pc = "settle"
    /\ iter < MaxPasses
    /\ LET chs == EvalChips(chips, nets)
           nts == EvalNets(nets, chs, clk_val, ext)
       IN  /\ chips' = chs
           /\ nets' = nts
           /\ reports' = reports \cup
                    UNION {Net_eval_reports(nets[n], chs, clk_val, ext) :
                              n \in DOMAIN nets}
           /\ PassEnd(Changed(nets, chs, clk_val, ext), nts)
    /\ UNCHANGED <<order, clk_val, ext, k, setup, fine, unit, error, tools>>

\* chip.tick() of the next chip of `for chip in self.chips`
ChipTick ==
    /\ pc = "ticks"
    /\ k < Len(chips)
    /\ chips' = [chips EXCEPT ![k + 1] = Chip_tick(chips[k + 1], nets)]
    /\ log' = Append(log, Event("tick", k + 1))
    /\ snap' = [snap EXCEPT !.valid = FALSE]
    /\ iter' = 0
    /\ IF k + 1 = Len(chips)
       THEN k' = 0 /\ Advance
       ELSE k' = k + 1 /\ UNCHANGED <<pc, tstep, forced>>
    /\ UNCHANGED <<nets, order, clk_val, ext, warning, reports, setup, fine, unit, error, tools>>

\* between calls the harness changes an attribute its driver lambdas read
SetExt ==
    /\ pc = "idle"
    /\ \E var \in DOMAIN ext : \E v \in ExtValues(bench, var) :
          /\ v # ext[var]
          /\ ext' = [ext EXCEPT ![var] = v]
    /\ snap' = NoSnap
    /\ UNCHANGED <<nets, order, chips, clk_val, pc, tstep, iter, k, warning,
                   reports, log, forced, setup, fine, unit, error, tools>>

\* between calls the harness assigns a net by hand:
\* net.next_state = v; net.apply()
Force ==
    /\ pc = "idle"
    /\ Cardinality(forced) < MaxForced
    /\ \E n \in Forceable(bench) \cap DOMAIN nets : \E v \in {0, 1} :
          /\ nets' = [nets EXCEPT ![n] =
                        Net_apply([nets[n] EXCEPT !.next_state = v]).net]
          /\ forced' = forced \cup {<<n, v>>}
    /\ snap' = NoSnap
    /\ UNCHANGED <<order, chips, clk_val, ext, pc, tstep, iter, k, warning,
                   reports, log, setup, fine, unit, error, tools>>

NetEvent(name, pull) == [ev |-> "net", chip |-> 0, name |-> name, pull |-> pull]

\* between calls the harness calls System.net(name, pull)
CallNet ==
    /\ pc = "idle"
    /\ \E name \in NetNames : \E pull \in {None, 0, 1} :
          LET s == SysNet([nets |-> nets, order |-> order, chips |-> chips,
                           wiring_log |-> wiring_log], name, pull)
          IN  /\ nets' = s.nets
              /\ order' = s.order
              /\ log' = <<NetEvent(name, pull)>>
    /\ UNCHANGED <<chips, clk_val, ext, pc, tstep, iter, k, warning, reports,
                   snap, forced, setup, fine, unit, error, tools>>

-----------------------------------------------------------------------------
(* System.eval_combinational and System.tick, call by call *)

\* the System as one value
ThisSystem == [nets |-> nets, order |-> order, chips |-> chips,
               wiring_log |-> wiring_log, clk_val |-> clk_val]

\* one pass of the loop of eval_combinational() on System s: the System it
\* leaves and whether it changed no net
Pass(s, ex) ==
    LET chs == EvalChips(s.chips, s.nets)
    IN  [sys |-> [s EXCEPT !.chips = chs,
                           !.nets = EvalNets(s.nets, chs, s.clk_val, ex)],
         conv |-> ~Changed(s.nets, chs, s.clk_val, ex),
         passes |-> 1,
         warning |-> FALSE]

RECURSIVE Passes(_, _, _)
\* the next n passes of the loop, or fewer if one of them changes no net:
\* the first half of them, then the rest
Passes(s, ex, n) ==
    IF n = 1 THEN Pass(s, ex)
    ELSE LET a == Passes(s, ex, n \div 2)
         IN  IF a.conv THEN a
             ELSE [Passes(a.sys, ex, n - n \div 2) EXCEPT
                        !.passes = @ + a.passes]

\* eval_combinational() on System s: the System it leaves, the passes it
\* ran, whether the last one changed no net, whether it printed
Settle(s, ex) ==
    LET r == Passes(s, ex, MaxPasses)
    IN  [r EXCEPT !.warning = ~r.conv]

RECURSIVE TickFrom(_, _, _)
\* mutant: a chip's tick() sees on its pins what the chips that ticked
\* before it have latched
TickFrom(chs, nts, j) ==
    IF j > Len(chs) THEN chs
    ELSE LET c == Chip_tick(chs[j], nts)
         IN  TickFrom([chs EXCEPT ![j] = c],
                      Seen(nts, j, Chip_eval(c, nts)), j + 1)

TickAll_chained(chs, nts) == TickFrom(chs, nts, 1)

\* for chip in self.chips: chip.tick()
TickAll(chs, nts) == [j \in 1..Len(chs) |-> Chip_tick(chs[j], nts)]

RECURSIVE RunBody(_, _, _)
\* the statements of tick() from statement t on; r holds the System, the
\* last return of eval_combinational() and whether any of them printed
RunBody(r, ex, t) ==
    IF t > Len(TickBody) THEN r
    ELSE LET st == TickBody[t]
             r1 == CASE st = "clk1" -> [r EXCEPT !.sys.clk_val = 1]
                     [] st = "clk0" -> [r EXCEPT !.sys.clk_val = 0]
                     [] st = "ticks" ->
                            [r EXCEPT !.sys.chips = TickAll(@, r.sys.nets)]
                     [] st = "settle" ->
                            LET e == Settle(r.sys, ex)
                            IN  [e EXCEPT !.warning = (@ \/ r.warning)]
         IN  IF r1.passes >= 0 THEN RunBody(r1, ex, t + 1) ELSE r1

\* System.eval_combinational()
RunEval(s, ex) == Settle(s, ex)

\* System.tick(): the first call creates clk_val and its driver on net CLK
RunTick(s, ex) ==
    LET s0 == IF s.clk_val = None
              THEN [SysDrive(s, "CLK", ClkDriver) EXCEPT !.clk_val = 0]
              ELSE s
    IN  RunBody([sys |-> s0, conv |-> FALSE, passes |-> 0, warning |-> FALSE],
                ex, 1)

\* what a call that returned r leaves in the log and the snapshot
TickLog ==
    [t \in 1..Len(TickBody) |->
        IF TickBody[t] = "ticks" THEN Event("tick", Len(chips))
        ELSE Event(TickBody[t], 0)]

Returned(r) ==
    /\ nets' = r.sys.nets
    /\ order' = r.sys.order
    /\ chips' = r.sys.chips
    /\ clk_val' = r.sys.clk_val
    /\ warning' = r.warning
    /\ snap' = [valid |-> TRUE, conv |-> r.conv, warned |-> ~r.conv,
                passes |-> r.passes, states |-> NetStates(r.sys.nets)]

\* the construction calls of the second System: the add() calls of the
\* script first and in reverse order, then its other calls as they are, on
\* the chips' new positions
Adds(script) == SelectSeq(script, LAMBDA c : c.op = "add")
Others(script) == SelectSeq(script, LAMBDA c : c.op # "add")
TwinIndex(script, j) == Len(Adds(script)) + 1 - j
TwinScript(script) ==
    [i \in 1..Len(Adds(script)) |-> Adds(script)[TwinIndex(script, i)]]
    \o [i \in 1..Len(Others(script)) |->
          LET c == Others(script)[i]
          IN  IF c.op = "wire"
              THEN [c EXCEPT !.chip = TwinIndex(script, c.chip)] ELSE c]

\* the benches that are built twice
TwinBenches == {"swap", "ring", "memsys", "clocks"}

\* both Systems are built
Ready == bench \in TwinBenches => twin.built = Len(Script(bench))

\* the harness makes the next construction call of the second System
BuildTwin ==
    /\ pc = "idle"
    /\ bench \in TwinBenches
    /\ twin.built < Len(Script(bench))
    /\ twin' = [Do(twin, TwinScript(Script(bench))[twin.built + 1])
                    EXCEPT !.built = @ + 1]
    /\ UNCHANGED <<nets, order, chips, clk_val, ext, pc, tstep, iter, k,
                   warning, reports, log, snap, forced, setup, fine, unit,
                   error, asm, cpu>>

\* the values the harness may assign to chip.val of a chip between calls
Presets(part) ==
    CASE part = "74HC574" -> Bytes
      [] part = "74HC193" -> Nibbles
      [] OTHER -> {}

\* before the first tick() the harness assigns chip.val, on both Systems
Preset ==
    /\ pc = "idle"
    /\ clk_val = None
    /\ Ready
    /\ \E j \in 1..Len(chips) : \E v \in Presets(chips[j].part_name) :
          /\ v # chips[j].val
          /\ chips' = [chips EXCEPT ![j].val = v]
          /\ twin' = IF twin.chips # <<>>
                     THEN [twin EXCEPT
                            !.chips[TwinIndex(Script(bench), j)].val = v]
                     ELSE twin
    /\ snap' = NoSnap
    /\ log' = <<>>
    /\ before' = NoChip
    /\ UNCHANGED <<nets, order, clk_val, ext, pc, tstep, iter, k, warning,
                   reports, forced, setup, fine, call, wrote, error, asm,
                   cpu>>

\* before the first call the harness loads a memory: chip.load(data) with
\* one byte of data, on both Systems
LoadMem ==
    /\ pc = "idle"
    /\ Ready
    /\ before = NoChip
    /\ \E j \in 1..Len(chips) : \E v \in Bytes \ {0} :
          /\ chips[j].part_name \in {"28C256", "62256"}
          /\ MemAt(chips[j].mem, 0) # v
          /\ chips' = [chips EXCEPT ![j].mem = MemStore(@, 0, v)]
          /\ twin' = IF twin.chips # <<>>
                     THEN [twin EXCEPT
                            !.chips[TwinIndex(Script(bench), j)].mem =
                                MemStore(@, 0, v)]
                     ELSE twin
    /\ UNCHANGED <<nets, order, clk_val, ext, pc, tstep, iter, k, warning,
                   reports, log, snap, forced, setup, fine, unit, error, asm,
                   cpu>>

\* a caller invokes eval_combinational() on the System, and on the second
\* System if there is one, and it returns
EvalCall ==
    /\ pc = "idle"
    /\ Ready
    /\ Returned(RunEval(ThisSystem, ext))
    /\ log' = <<Event("settle", 0)>>
    /\ before' = chips
    /\ twin' = IF twin.chips # <<>> THEN RunEval(twin, ext).sys ELSE twin
    /\ UNCHANGED <<ext, pc, tstep, iter, k, reports, forced, setup, fine,
                   call, wrote, error, asm, cpu>>

\* a caller invokes tick() on the System, and on the second System if there
\* is one, and it returns
TickCall ==
    /\ pc = "idle"
    /\ Ready
    /\ Returned(RunTick(ThisSystem, ext))
    /\ log' = TickLog
    /\ before' = chips
    /\ twin' = IF twin.chips # <<>> THEN RunTick(twin, ext).sys ELSE twin
    /\ UNCHANGED <<ext, pc, tstep, iter, k, reports, forced, setup, fine,
                   call, wrote, error, asm, cpu>>

Next == Setup \/ CallEval \/ CallTick \/ SetClk \/ SettlePass \/ ChipTick \/ SetExt \/ Force

Spec == Init /\ [][Next]_vars

\* a System whose nets are asked for again and again
InitNets == InitBench("renet")
NextNets == Setup \/ CallNet \/ CallEval \/ SettlePass \/ SetExt
SpecNets == InitNets /\ [][NextNets]_vars

\* chains of inverters, settled by eval_combinational() alone
InitSeries == \E b \in {"chain", "shallow", "deep"} : InitBench(b)
NextSeries == Setup \/ CallEval \/ SettlePass \/ SetExt
SpecSeries == InitSeries /\ [][NextSeries]_vars

\* two registers that feed each other
InitSwap == InitBench("swap")
NextSwap == Setup \/ BuildTwin \/ Preset \/ EvalCall \/ TickCall
SpecSwap == InitSwap /\ [][NextSwap]_vars

\* the two cascaded up/down counters
InitTracker == InitBench("updown")
NextTracker == Setup \/ Preset \/ SetExt \/ TickCall
SpecTracker == InitTracker /\ [][NextTracker]_vars

\* a memory among other chips
InitMemSys == InitBench("memsys")
NextMemSys == Setup \/ BuildTwin \/ LoadMem \/ SetExt \/ EvalCall
SpecMemSys == InitMemSys /\ [][NextMemSys]_vars

\* chips on CLK and on its inverse, statement by statement
InitClocks == InitBench("clocks")
NextClocks == Setup \/ CallEval \/ CallTick \/ SetClk \/ SettlePass \/ ChipTick \/ SetExt
SpecClocks == InitClocks /\ [][NextClocks]_vars

\* registers whose outputs the source decoder enables
InitSource == InitBench("srcdec")
NextSource == Setup \/ Preset \/ CallEval \/ SettlePass \/ SetExt
SpecSource == InitSource /\ [][NextSource]_vars

\* Systems of registers, counters, gates and decoders on nets of every pull
TypeBenches == {"reg", "net", "clocks", "updown", "srcdec"}
InitTypes == \E b \in TypeBenches : InitBench(b)
NextTypes ==
    Setup \/ Preset \/ CallEval \/ CallTick \/ SetClk \/ SettlePass \/ ChipTick
        \/ SetExt
SpecTypes == InitTypes /\ [][NextTypes]_vars

\* Systems built twice, with the add() calls in two orders
InitOrder == \E b \in TwinBenches : InitBench(b)
NextOrder == Setup \/ BuildTwin \/ Preset \/ LoadMem \/ SetExt \/ EvalCall \/ TickCall
SpecOrder == InitOrder /\ [][NextOrder]_vars

\* the statements of a running call: once called, tick() and
\* eval_combinational() run to their return without waiting for anything
Step == SetClk \/ SettlePass \/ ChipTick

LiveBenches == {"chain", "loop", "contend", "reg2"}

InitLive == \E b \in LiveBenches : InitBench(b)

SpecLive == InitLive /\ [][Next]_vars /\ WF_vars(Step)

-----------------------------------------------------------------------------
(* eval_combinational with every Net.eval() and Net.apply() as its own step *)

\* for chip in self.chips: chip.eval(); changed = False
EvalChipsStep ==
    /\ pc = "settle"
    /\ sub.ph = "none"
    /\ iter < MaxPasses
    /\ chips' = EvalChips(chips, nets)
    /\ changed' = FALSE
    /\ sub' = [ph |-> "eval", idx |-> 1]
    /\ UNCHANGED <<nets, order, clk_val, ext, pc, tstep, iter, k, warning,
                   reports, log, snap, forced, ret, setup, unit, error, tools>>

\* net.eval() of the next net of self.nets.values()
NetEvalStep ==
    /\ pc = "settle"
    /\ sub.ph = "eval"
    /\ LET n == order[sub.idx]
       IN  /\ nets' = [nets EXCEPT ![n] = Net_eval(nets[n], chips, clk_val, ext)]
           /\ reports' = reports \cup
                            Net_eval_reports(nets[n], chips, clk_val, ext)
    /\ sub' = [sub EXCEPT !.ph = "apply"]
    /\ UNCHANGED <<order, chips, clk_val, ext, pc, tstep, iter, k, warning, log,
                   snap, forced, changed, ret, setup, unit, error, tools>>

\* `if net.apply(): changed = True` of the same net; after the last net
\* the pass ends
NetApplyStep ==
    /\ pc = "settle"
    /\ sub.ph = "apply"
    /\ LET n == order[sub.idx]
           r == Net_apply(nets[n])
           nts == [nets EXCEPT ![n] = r.net]
       IN  /\ nets' = nts
           /\ ret' = r.changed
           /\ changed' = (changed \/ r.changed)
           /\ IF sub.idx = Len(order)
              THEN /\ sub' = NoSub
                   /\ PassEnd(changed \/ r.changed, nts)
              ELSE /\ sub' = [ph |-> "eval", idx |-> sub.idx + 1]
                   /\ UNCHANGED <<iter, warning, snap, log, pc, tstep, forced>>
    /\ UNCHANGED <<order, chips, clk_val, ext, k, reports, setup, unit, error, tools>>

FineBenches == {"chain", "loop", "contend", "reg"}

InitFine == \E b \in FineBenches : InitBench(b)

NextFine ==
    \/ Setup \/ CallEval \/ CallTick \/ SetClk \/ ChipTick \/ SetExt
    \/ EvalChipsStep \/ NetEvalStep \/ NetApplyStep

SpecFine == InitFine /\ [][NextFine]_vars

-----------------------------------------------------------------------------
(* One chip on a test harness that assigns its input nets by hand and calls *)
(* its eval() and tick() directly                                           *)

Group(pins, vals) == [pins |-> pins, vals |-> vals]

\* the bytes the harness writes to a memory
MemBytes == {SampleBytes[1], SampleBytes[2], SampleBytes[3]}

\* the pins the harness sets together, with the values it gives them
Groups(part) ==
    CASE part = "partial" -> <<Group(<<"1A">>, {0, 1}), Group(<<"3A">>, {0, 1})>>
      [] part = "74HC574" ->
            <<Group(<<"~OE">>, {0, 1}), Group(<<"CLK">>, {0, 1}),
              Group(DPins, Bytes)>>
      [] part = "74HC161" ->
            <<Group(<<"~CLR">>, {0, 1}), Group(<<"CLK">>, {0, 1}),
              Group(<<"ENP">>, {0, 1}), Group(<<"ENT">>, {0, 1}),
              Group(<<"~LOAD">>, {0, 1}), Group(ABCD, Nibbles)>>
      [] part = "74HC193" ->
            <<Group(<<"CLR">>, {0, 1}), Group(<<"UP">>, {0, 1}),
              Group(<<"DOWN">>, {0, 1}), Group(<<"~LOAD">>, {0, 1}),
              Group(ABCD, Nibbles)>>
      [] part = "74HC245" ->
            <<Group(<<"DIR">>, {0, 1}), Group(<<"~OE">>, {0, 1}),
              Group(A8, Bytes), Group(B8, Bytes)>>
      [] part = "74HC283" ->
            <<Group(A4, Nibbles), Group(B4, Nibbles),
              Group(<<"C0">>, {0, 1})>>
      [] part = "74HC138" ->
            <<Group(<<"A", "B", "C">>, 0..7), Group(<<"G1">>, {0, 1}),
              Group(<<"~G2A">>, {0, 1}), Group(<<"~G2B">>, {0, 1})>>
      [] part = "74HC154" ->
            <<Group(ABCD, 0..15), Group(<<"~G1">>, {0, 1}),
              Group(<<"~G2">>, {0, 1})>>
      [] part = "74HC04" -> <<Group(APins, Nibbles)>>
      [] part \in {"74HC08", "74HC32", "74HC00"} -> <<Group(GateIn, Bytes)>>
      [] part \in {"28C256", "62256"} ->
            <<Group(<<"~CE", "~OE", "~WE">>, 0..7),
              Group(A15, Addrs), Group(DPins, MemBytes)>>
      [] part = "GAL22V10" ->
            <<Group(A8, Bytes), Group(B8, Bytes), Group(OP3, 0..7),
              Group(<<"~OE">>, {0, 1})>>

\* what the chip reads on a group of its pins
Reads(pins) == ReadSum(chips[1], pins, 1, nets)

\* the harness assigns the nets of one pin group:
\* net.next_state = bit; net.apply(); it calls the chip before it assigns
\* another group
Poke ==
    /\ pc = "idle"
    /\ bench \in UnitBenches
    /\ call # "poke"
    /\ \E i \in 1..Len(Groups(bench)) :
          LET g == Groups(bench)[i]
          IN  \E v \in g.vals :
                /\ v # Reads(g.pins)
                /\ nets' = [n \in DOMAIN nets |->
                              IF n \in Range(g.pins)
                              THEN Net_apply([nets[n] EXCEPT !.next_state =
                                        Bit(v, PinIndex(g.pins, n) - 1)]).net
                              ELSE nets[n]]
    /\ before' = chips[1]
    /\ call' = "poke"
    /\ UNCHANGED <<order, chips, clk_val, ext, pc, tstep, iter, k, warning,
                   reports, log, snap, forced, setup, fine, wrote, error, tools>>

\* the chip is a memory and reads ~CE = 0 and ~WE = 0
Writing ==
    /\ bench \in {"28C256", "62256"}
    /\ Chip_read(chips[1], "~CE", nets) = 0
    /\ Chip_read(chips[1], "~WE", nets) = 0

\* a direct call has been made: the write it made, or else the write of
\* the call before it
Wrote(writes) ==
    IF writes
    THEN [valid |-> TRUE, addr |-> Reads(A15),
          data |-> Reads(DPins), age |-> 0]
    ELSE IF wrote.valid /\ wrote.age = 0 THEN [wrote EXCEPT !.age = 1]
    ELSE NoWrite

\* the harness calls chip.eval()
DirectEval ==
    /\ pc = "idle"
    /\ bench \in UnitBenches
    /\ chips' = [chips EXCEPT ![1] = Chip_eval(chips[1], nets)]
    /\ before' = chips[1]
    /\ call' = "eval"
    /\ wrote' = Wrote(Writing)
    /\ UNCHANGED <<nets, order, clk_val, ext, pc, tstep, iter, k, warning,
                   reports, log, snap, forced, setup, fine, error, tools>>

\* the harness calls chip.tick(), as System.tick does, on a chip whose
\* eval() has run on the present net states
DirectTick ==
    /\ pc = "idle"
    /\ bench \in UnitBenches
    /\ Chip_eval(chips[1], nets) = chips[1]
    /\ chips' = [chips EXCEPT ![1] = Chip_tick(chips[1], nets)]
    /\ before' = chips[1]
    /\ call' = "tick"
    /\ wrote' = Wrote(FALSE)
    /\ UNCHANGED <<nets, order, clk_val, ext, pc, tstep, iter, k, warning,
                   reports, log, snap, forced, setup, fine, error, tools>>

\* the harness assigns next_state of the nets of one pin group and has not
\* called apply() yet
Stage ==
    /\ pc = "idle"
    /\ bench \in UnitBenches
    /\ \E i \in 1..Len(Groups(bench)) :
          LET g == Groups(bench)[i]
              nts == [n \in DOMAIN nets |->
                        IF n \in Range(g.pins)
                        THEN [nets[n] EXCEPT !.next_state = 1 - @]
                        ELSE nets[n]]
          IN  /\ Len(g.pins) = 1
              /\ nets' = nts
    /\ before' = chips[1]
    /\ call' = "stage"
    /\ UNCHANGED <<order, chips, clk_val, ext, pc, tstep, iter, k, warning,
                   reports, log, snap, forced, setup, fine, wrote, error, tools>>

\* the harness calls apply() on every net
Commit ==
    /\ pc = "idle"
    /\ bench \in UnitBenches
    /\ \E n \in DOMAIN nets : nets[n].state # nets[n].next_state
    /\ nets' = [n \in DOMAIN nets |-> Net_apply(nets[n]).net]
    /\ before' = chips[1]
    /\ call' = "poke"
    /\ UNCHANGED <<order, chips, clk_val, ext, pc, tstep, iter, k, warning,
                   reports, log, snap, forced, setup, fine, wrote, error, tools>>

InitUnit == \E b \in Catalog : InitBench(b)

NextUnit == Setup \/ Poke \/ DirectEval \/ DirectTick

SpecUnit == InitUnit /\ [][NextUnit]_vars

\* the same harness with one register, one up counter, the memories, the
\* decoders
InitReg == InitBench("74HC574")
SpecReg == InitReg /\ [][NextUnit]_vars

InitCounter == InitBench("74HC161")
SpecCounter == InitCounter /\ [][NextUnit]_vars

InitUpDown == InitBench("74HC193")
SpecUpDown == InitUpDown /\ [][NextUnit]_vars

InitMemory == \E b \in {"28C256", "62256"} : InitBench(b)
SpecMemory == InitMemory /\ [][NextUnit]_vars

\* the operand pins of the arithmetic chips with every value the harness
\* gives them
Operands(part) ==
    CASE part = "GAL22V10" ->
            <<Group(A8, OpBytes), Group(B8, OpBytes), Group(OP3, 0..7),
              Group(<<"~OE">>, {0, 1})>>
      [] part = "74HC283" ->
            <<Group(A4, 0..15), Group(B4, 0..15), Group(<<"C0">>, {0, 1}),
              Group(<<>>, {0})>>

\* the harness assigns every input net of a newly built arithmetic chip
SetOperands ==
    /\ pc = "idle"
    /\ bench \in {"GAL22V10", "74HC283"}
    /\ call = "none"
    /\ LET g == Operands(bench)
       IN  \E a \in g[1].vals, b \in g[2].vals, c \in g[3].vals, d \in g[4].vals :
             LET v == <<a, b, c, d>>
                 Val(n) ==
                    LET i == CHOOSE j \in 1..4 : n \in Range(g[j].pins)
                    IN  Bit(v[i], PinIndex(g[i].pins, n) - 1)
             IN  nets' = [n \in DOMAIN nets |->
                            IF \E j \in 1..4 : n \in Range(g[j].pins)
                            THEN Net_apply([nets[n] EXCEPT
                                               !.next_state = Val(n)]).net
                            ELSE nets[n]]
    /\ before' = chips[1]
    /\ call' = "poke"
    /\ UNCHANGED <<order, chips, clk_val, ext, pc, tstep, iter, k, warning,
                   reports, log, snap, forced, setup, fine, wrote, error, tools>>

\* the ALU alone with its operands set once
InitAlu == InitBench("GAL22V10")
NextAlu == Setup \/ SetOperands \/ DirectEval \/ DirectTick
SpecAlu == InitAlu /\ [][NextAlu]_vars

\* one adder with its operands set once, and the cascade of two settled by
\* eval_combinational() for operands the harness changes between calls
InitAdder == \E b \in {"74HC283", "adder8"} : InitBench(b)
NextAdder ==
    \/ Setup \/ SetOperands \/ DirectEval \/ DirectTick
    \/ CallEval \/ SettlePass \/ SetExt
SpecAdder == InitAdder /\ [][NextAdder]_vars

InitPartial == InitBench("partial")
NextPartial == Setup \/ Stage \/ Commit \/ DirectEval \/ DirectTick
SpecPartial == InitPartial /\ [][NextPartial]_vars

InitDecoder == \E b \in {"74HC138", "74HC154"} : InitBench(b)
SpecDecoder == InitDecoder /\ [][NextUnit]_vars

-----------------------------------------------------------------------------
(* The two-pass assembler: assembler.py *)

\* lines of the programs assembled
ProgLen == 4

ROM_START == 0

\* what the System part of the state holds
system == <<nets, chips, clk_val, ext, pc, tstep, iter, k, warning, reports,
            log, snap, forced, order, error>>

\* an operand: a number literal, or a symbol to resolve
Lit(v) == [sym |-> "", val |-> v]
Sym(x) == [sym |-> x, val |-> 0]

\* a source line as tokenize_line returns it: label, mnemonic (upper case,
\* "" for None) and operand; name is the NAME of `.equ NAME VALUE`
Line(l, m, n, a) == [label |-> l, mnemonic |-> m, name |-> n, arg |-> a]

SourceLines ==
    { Line("", ".ORG", "", Lit(253)),      \* .org 0xFD
      Line("L", "HLT", "", Lit(0)),        \* L: HLT
      Line("", ".EQU", "N", Sym("L")),     \* .equ N L
      Line("", ".EQU", "N", Lit(2)),       \* .equ N 2
      Line("", ".DS", "", Sym("N")),       \* .ds N
      Line("M", "JMP", "", Sym("M")),      \* M: JMP M
      Line("", "LDA", "", Sym("N")),       \* LDA #N
      Line("P", "", "", Lit(0)) }          \* P:

\* the sources assembled: ProgLen different lines in any order, so that no
\* label is defined twice
Programs ==
    {p \in [1..ProgLen -> SourceLines] :
        \A i, j \in 1..ProgLen : i # j => p[i] # p[j]}

\* d[key] = v on a dict
Put(d, key, v) == [x \in DOMAIN d \cup {key} |-> IF x = key THEN v ELSE d[x]]

\* Assembler.__init__, and the source split into lines; planned and emitted
\* record the address each pass gave the instruction of a line
NewAssembler(lines) ==
    [phase |-> "pass1", lines |-> lines, ln |-> 1,
     labels |-> <<>>, constants |-> <<>>,
     origin |-> ROM_START, current_addr |-> ROM_START,
     output |-> [len |-> 0, bytes |-> <<>>],
     errors |-> <<>>, aligned |-> <<>>,
     planned |-> <<>>, emitted |-> <<>>]

\* Assembler.resolve_value: constants, then labels, then a number literal;
\* not ok is AssemblerError("Undefined symbol")
resolve_value(a, arg) ==
    IF arg.sym = "" THEN [ok |-> TRUE, val |-> arg.val]
    ELSE IF arg.sym \in DOMAIN a.constants
    THEN [ok |-> TRUE, val |-> a.constants[arg.sym]]
    ELSE IF arg.sym \in DOMAIN a.labels
    THEN [ok |-> TRUE, val |-> a.labels[arg.sym]]
    ELSE [ok |-> FALSE, val |-> 0]

\* Assembler._parse_operand: the opcode byte and the operand bytes; operands
\* are resolved in pass 2 only, and are 0 in pass 1
parse_operand(a, line, pass_num) ==
    LET r == IF pass_num = 2 THEN resolve_value(a, line.arg)
             ELSE [ok |-> TRUE, val |-> 0]
        lo == r.val % 256
        hi == (r.val \div 256) % 256
    IN  CASE line.mnemonic = "HLT" -> [ok |-> TRUE, opc |-> 130, bytes |-> <<>>]
          [] line.mnemonic = "LDA" -> [ok |-> r.ok, opc |-> 1, bytes |-> <<lo>>]
          [] line.mnemonic = "JMP" ->
                [ok |-> r.ok, opc |-> 112, bytes |-> <<lo, hi>>]

\* Assembler._crosses_page: addr & 0xFF00 != (addr + size - 1) & 0xFF00
crosses_page(addr, size) ==
    (addr \div 256) % 256 # ((addr + size - 1) \div 256) % 256

\* Assembler._count_nops_needed
count_nops_needed(addr, size) ==
    IF ~crosses_page(addr, size) THEN 0
    ELSE ((addr \div 256) % 256) * 256 + 256 - addr

\* n calls of Assembler._emit(0): the output grows to hold the bytes
EmitZeros(a, n) ==
    LET offset == a.current_addr - a.origin
        top == offset + n
    IN  IF n <= 0 THEN a
        ELSE [a EXCEPT
                !.output = [len |-> IF top > @.len THEN top ELSE @.len,
                            bytes |-> [x \in DOMAIN @.bytes \ (offset..(top - 1))
                                          |-> @.bytes[x]]],
                !.current_addr = @ + n]

\* Assembler._emit
emit(a, byte) ==
    LET offset == a.current_addr - a.origin
    IN  [a EXCEPT
            !.output = [len |-> IF offset + 1 > @.len THEN offset + 1 ELSE @.len,
                        bytes |-> MemStore(@.bytes, offset, byte % 256)],
            !.current_addr = @ + 1]

RECURSIVE EmitAll(_, _)
\* _emit of each byte in turn
EmitAll(a, bytes) ==
    IF bytes = <<>> THEN a ELSE EmitAll(emit(a, Head(bytes)), Tail(bytes))

IsDirective(m) == m \in {".ORG", ".EQU", ".DS"}

\* Assembler._process_directive: the assembler after it, what it returned,
\* and not ok if it raised AssemblerError
process_directive(a, line, pass_num) ==
    LET r == resolve_value(a, line.arg)
    IN  CASE line.mnemonic = ".ORG" ->
                [ok |-> r.ok, result |-> -1,
                 a |-> [a EXCEPT !.current_addr = r.val]]
          [] line.mnemonic = ".EQU" ->
                [ok |-> pass_num = 1 \/ r.ok, result |-> -1,
                 a |-> [a EXCEPT !.constants =
                            Put(@, line.name,
                                IF pass_num = 2 THEN r.val
                                ELSE IF line.arg.sym = "" THEN line.arg.val
                                ELSE 0)]]
          [] line.mnemonic = ".DS" ->
                [ok |-> r.ok, result |-> r.val,
                 a |-> IF pass_num = 2 THEN EmitZeros(a, r.val) ELSE a]

\* one line of the loop of Assembler._pass1_with_alignment
Pass1Line ==
    /\ asm.phase = "pass1"
    /\ asm.ln <= Len(asm.lines)
    /\ LET i == asm.ln
           line == asm.lines[i]
           ins == line.mnemonic # "" /\ ~IsDirective(line.mnemonic)
           size == 1 + Len(parse_operand(asm, line, 1).bytes)
           nops_before ==
                IF ins THEN count_nops_needed(asm.current_addr, size) ELSE 0
           a1 == IF nops_before > 0
                 THEN [asm EXCEPT !.current_addr = @ + nops_before] ELSE asm
           a2 == IF line.label # ""
                 THEN [a1 EXCEPT !.labels = Put(@, line.label, a1.current_addr)]
                 ELSE a1
           d == process_directive(a2, line, 1)
           a3 == IF line.mnemonic = ""
                 THEN [a2 EXCEPT !.aligned = Append(@, nops_before)]
                 ELSE IF ins
                 THEN [a2 EXCEPT !.current_addr = @ + size,
                                 !.planned = Put(@, i, a2.current_addr),
                                 !.aligned = Append(@, nops_before)]
                 ELSE IF d.ok
                 THEN [d.a EXCEPT !.current_addr =
                                        IF d.result >= 0 THEN @ + d.result ELSE @,
                                  !.aligned = Append(@, nops_before)]
                 ELSE [a2 EXCEPT !.errors = Append(@, i),
                                 !.aligned = Append(@, 0)]
       IN  asm' = [a3 EXCEPT !.ln = i + 1]
    /\ UNCHANGED <<system, fine, unit, setup, cpu, twin>>

\* Assembler.assemble between the passes: `if self.errors: return None`,
\* else the address and the output start again
Pass1End ==
    /\ asm.phase = "pass1"
    /\ asm.ln > Len(asm.lines)
    /\ asm' = IF asm.errors # <<>> THEN [asm EXCEPT !.phase = "failed"]
              ELSE [asm EXCEPT !.phase = "pass2", !.ln = 1,
                               !.current_addr = asm.origin,
                               !.output = [len |-> 0, bytes |-> <<>>]]
    /\ UNCHANGED <<system, fine, unit, setup, cpu, twin>>

\* one line of the pass 2 loop of Assembler.assemble
Pass2Line ==
    /\ asm.phase = "pass2"
    /\ asm.ln <= Len(asm.lines)
    /\ LET i == asm.ln
           line == asm.lines[i]
           a1 == EmitZeros(asm, asm.aligned[i])
           d == process_directive(a1, line, 2)
           addr == a1.current_addr
           po == parse_operand(a1, line, 2)
           size == 1 + Len(po.bytes)
           a2 == IF line.mnemonic = "" THEN a1
                 ELSE IF IsDirective(line.mnemonic)
                 THEN IF d.ok THEN d.a ELSE [a1 EXCEPT !.errors = Append(@, i)]
                 ELSE IF ~po.ok \/ crosses_page(addr, size)
                 THEN [a1 EXCEPT !.errors = Append(@, i)]
                 ELSE [EmitAll(a1, <<po.opc>> \o po.bytes) EXCEPT
                            !.emitted = Put(@, i, [addr |-> addr, size |-> size])]
       IN  asm' = [a2 EXCEPT !.ln = i + 1]
    /\ UNCHANGED <<system, fine, unit, setup, cpu, twin>>

\* the return of Assembler.assemble
Pass2End ==
    /\ asm.phase = "pass2"
    /\ asm.ln > Len(asm.lines)
    /\ asm' = [asm EXCEPT !.phase = IF asm.errors # <<>> THEN "failed" ELSE "done"]
    /\ UNCHANGED <<system, fine, unit, setup, cpu, twin>>

\* no System is built: assemble() runs on one of the sources
InitAsm ==
    /\ Hardware("assembler")
    /\ cpu = NoCpu
    /\ \E p \in Programs : asm = NewAssembler(p)

NextAsm == Pass1Line \/ Pass1End \/ Pass2Line \/ Pass2End

SpecAsm == InitAsm /\ [][NextAsm]_vars

-----------------------------------------------------------------------------
(* The instruction decoders: microcode.py and emulator.py *)

\* a control word is the set of the fields or'ed into it
LATCH_IPL == {"DS_IPL", "DD_L"}

\* make_ldi
ldi(dd) == <<LATCH_IPL, {"DS_MEM", dd, "IP_INC"}, {"uIP_RST"}>>

\* make_ld_addr16, make_st_addr16
ld_addr16(dest_dd) ==
    <<LATCH_IPL, {"DS_MEM", "DD_C", "IP_INC"},
      LATCH_IPL, {"DS_MEM", "DD_H", "IP_INC"},
      {"DS_C", "DD_L"}, {"DS_MEM", dest_dd}, {"uIP_RST"}>>

st_addr16(src_ds) ==
    <<LATCH_IPL, {"DS_MEM", "DD_C", "IP_INC"},
      LATCH_IPL, {"DS_MEM", "DD_H", "IP_INC"},
      {"DS_C", "DD_L"}, {src_ds, "DD_MEM"}, {"uIP_RST"}>>

\* make_mov, make_alu
mov(src, dst) == <<{src, dst, "uIP_RST"}>>
alu(alu_op) == <<{"DS_ALU", alu_op, "DD_A", "FLAGS_IN", "uIP_RST"}>>

\* make_psh, make_pop
psh(src_ds) ==
    <<{"DS_CONST_FF", "DD_H"}, {"DS_SP", "DD_L"}, {src_ds, "DD_MEM"},
      {"SP_DEC"}, {"uIP_RST"}>>

pop(dest_dd) ==
    <<{"SP_INC"}, {"DS_CONST_FF", "DD_H"}, {"DS_SP", "DD_L"},
      {"DS_MEM", dest_dd}, {"uIP_RST"}>>

\* the bodies of LSA/LSB off (the loaded register is dest_dd) and of
\* SSA/SSB off (the stored register is saved in save_dd and stored from
\* save_ds)
ls_off(dest_dd) ==
    <<LATCH_IPL, {"DS_MEM", "DD_B", "IP_INC"}, {"DS_SP", "DD_A"},
      {"DS_ALU", "ALU_ADD", "DD_L"}, {"DS_CONST_FF", "DD_H"},
      {"DS_MEM", dest_dd}, {"uIP_RST"}>>

ss_off(src_ds, save_dd, save_ds) ==
    <<{src_ds, save_dd}, LATCH_IPL, {"DS_MEM", "DD_B", "IP_INC"},
      {"DS_SP", "DD_A"}, {"DS_ALU", "ALU_ADD", "DD_L"},
      {"DS_CONST_FF", "DD_H"}, {save_ds, "DD_MEM"}, {"uIP_RST"}>>

JMP_TAKEN_STEPS ==
    <<LATCH_IPL, {"DS_MEM", "DD_C", "IP_INC"},
      LATCH_IPL, {"DS_MEM", "DD_D", "IP_INC"},
      {"DS_C", "DD_IPL"}, {"DS_D", "DD_IPH"}, {"uIP_RST"}>>

JMP_NOT_TAKEN_STEPS ==
    <<LATCH_IPL, {"IP_INC"}, LATCH_IPL, {"IP_INC"}, {"uIP_RST"}>>

CALL_STEPS ==
    <<LATCH_IPL, {"DS_MEM", "DD_C", "IP_INC"},
      LATCH_IPL, {"DS_MEM", "DD_D", "IP_INC"},
      {"DS_IPL", "DD_B"}, {"DS_IPH", "DD_A"},
      {"DS_C", "DD_IPL"}, {"DS_D", "DD_IPH"}, {"uIP_RST"}>>

\* instruction(opcode, name, *steps)
instruction(opcode, name, steps) == opcode :> [name |-> name, steps |-> steps]

\* the dict the calls of instruction() leave
INSTRUCTIONS ==
    instruction(0, "NOP", <<{"uIP_RST"}>>)
    @@ instruction(1, "LDA #imm", ldi("DD_A"))
    @@ instruction(2, "LDB #imm", ldi("DD_B"))
    @@ instruction(3, "LDC #imm", ldi("DD_C"))
    @@ instruction(4, "LDD #imm", ldi("DD_D"))
    @@ instruction(5, "LDA [addr16]", ld_addr16("DD_A"))
    @@ instruction(6, "STA [addr16]", st_addr16("DS_A"))
    @@ instruction(7, "LDB [addr16]", ld_addr16("DD_B"))
    @@ instruction(8, "STB [addr16]", st_addr16("DS_B"))
    @@ instruction(24, "MVA B", mov("DS_B", "DD_A"))
    @@ instruction(25, "MVA C", mov("DS_C", "DD_A"))
    @@ instruction(26, "MVA D", mov("DS_D", "DD_A"))
    @@ instruction(27, "MVB A", mov("DS_A", "DD_B"))
    @@ instruction(28, "MVC A", mov("DS_A", "DD_C"))
    @@ instruction(29, "MVD A", mov("DS_A", "DD_D"))
    @@ instruction(32, "ADD", alu("ALU_ADD"))
    @@ instruction(33, "SUB", alu("ALU_SUB"))
    @@ instruction(34, "AND", alu("ALU_AND"))
    @@ instruction(35, "OR", alu("ALU_OR"))
    @@ instruction(36, "XOR", alu("ALU_XOR"))
    @@ instruction(37, "NOT", alu("ALU_NOT"))
    @@ instruction(38, "SHL", alu("ALU_SHL"))
    @@ instruction(39, "SHR", alu("ALU_SHR"))
    @@ instruction(40, "CMP", <<{"DS_ALU", "ALU_SUB", "FLAGS_IN", "uIP_RST"}>>)
    @@ instruction(48, "PSH A", psh("DS_A"))
    @@ instruction(64, "POP A", pop("DD_A"))
    @@ instruction(80, "PSH B", psh("DS_B"))
    @@ instruction(96, "POP B", pop("DD_B"))
    @@ instruction(144, "PSH C", psh("DS_C"))
    @@ instruction(160, "POP C", pop("DD_C"))
    @@ instruction(176, "PSH D", psh("DS_D"))
    @@ instruction(16, "POP D", pop("DD_D"))
    @@ instruction(192, "LSA off", ls_off("DD_A"))
    @@ instruction(208, "SSA off", ss_off("DS_A", "DD_D", "DS_D"))
    @@ instruction(224, "LSB off", ls_off("DD_B"))
    @@ instruction(240, "SSB off", ss_off("DS_B", "DD_C", "DS_C"))
    @@ instruction(112, "JMP addr16", JMP_TAKEN_STEPS)
    @@ instruction(128, "CALL addr16", CALL_STEPS)
    @@ instruction(129, "RET",
                   <<{"DS_B", "DD_IPL"}, {"DS_A", "DD_IPH"}, {"uIP_RST"}>>)
    @@ instruction(130, "HLT", <<{"HLT"}>>)
    @@ instruction(131, "IN A", <<{"DD_A"}, {"uIP_RST"}>>)
    @@ instruction(132, "OUT A", <<{"DS_A", "DD_OUT", "uIP_RST"}>>)

\* JUMP_MAP: the jump is taken when flag bit `bit` is `set`
JUMP_MAP ==
    (113 :> [name |-> "JZ addr16", bit |-> 1, set |-> 1])
    @@ (114 :> [name |-> "JNZ addr16", bit |-> 1, set |-> 0])
    @@ (115 :> [name |-> "JC addr16", bit |-> 2, set |-> 1])
    @@ (116 :> [name |-> "JNC addr16", bit |-> 2, set |-> 0])
    @@ (117 :> [name |-> "JN addr16", bit |-> 4, set |-> 1])

\* the operand bytes a body consumes: its steps that advance IP
OperandBytes(steps) ==
    Cardinality({i \in 1..Len(steps) : "IP_INC" \in steps[i]})

Decoded(name, n) == [name |-> name, operands |-> n]

\* the body generate_microcode stores for opcode ir under the flags
Microcode(ir, flags) ==
    IF ir \in DOMAIN JUMP_MAP
    THEN LET j == JUMP_MAP[ir]
             taken == (flags \div j.bit) % 2 = j.set
         IN  Decoded(j.name,
                     OperandBytes(IF taken THEN JMP_TAKEN_STEPS
                                  ELSE JMP_NOT_TAKEN_STEPS))
    ELSE IF ir \in DOMAIN INSTRUCTIONS
    THEN Decoded(INSTRUCTIONS[ir].name, OperandBytes(INSTRUCTIONS[ir].steps))
    ELSE Decoded("undefined", 0)

\* CPU._dispatch: the instruction a branch executes, under the name
\* microcode.py gives the instruction of that effect, and the bytes it
\* fetches: one per fetch_byte(), two per fetch_word()
dispatch(opcode) ==
    CASE opcode = 0 -> Decoded("NOP", 0)
      [] opcode = 1 -> Decoded("LDA #imm", 1)
      [] opcode = 2 -> Decoded("LDA [addr16]", 2)
      [] opcode = 3 -> Decoded("STA [addr16]", 2)
      [] opcode = 4 -> Decoded("LDB #imm", 1)
      [] opcode = 5 -> Decoded("LDB [addr16]", 2)
      [] opcode = 6 -> Decoded("STB [addr16]", 2)
      [] opcode = 7 -> Decoded("MVA B", 0)
      [] opcode = 8 -> Decoded("MVB A", 0)
      [] opcode = 16 -> Decoded("ADD", 0)
      [] opcode = 17 -> Decoded("SUB", 0)
      [] opcode = 18 -> Decoded("AND", 0)
      [] opcode = 19 -> Decoded("OR", 0)
      [] opcode = 20 -> Decoded("XOR", 0)
      [] opcode = 21 -> Decoded("NOT", 0)
      [] opcode = 22 -> Decoded("SHL", 0)
      [] opcode = 23 -> Decoded("SHR", 0)
      [] opcode = 24 -> Decoded("ADI #imm", 1)
      [] opcode = 25 -> Decoded("SBI #imm", 1)
      [] opcode = 26 -> Decoded("CMP", 0)
      [] opcode = 27 -> Decoded("CMI #imm", 1)
      [] opcode = 32 -> Decoded("PSH A", 0)
      [] opcode = 33 -> Decoded("POP A", 0)
      [] opcode = 34 -> Decoded("PSH B", 0)
      [] opcode = 35 -> Decoded("POP B", 0)
      [] opcode = 48 -> Decoded("JMP addr16", 2)
      [] opcode = 64 -> Decoded("JZ addr16", 2)
      [] opcode = 80 -> Decoded("JNZ addr16", 2)
      [] opcode = 96 -> Decoded("JC addr16", 2)
      [] opcode = 112 -> Decoded("JNC addr16", 2)
      [] opcode = 128 -> Decoded("JN addr16", 2)
      [] opcode = 144 -> Decoded("CALL addr16", 2)
      [] opcode = 160 -> Decoded("RET", 0)
      [] opcode = 253 -> Decoded("IN A", 0)
      [] opcode = 254 -> Decoded("OUT A", 0)
      [] opcode = 255 -> Decoded("HLT", 0)
      [] OTHER -> Decoded("unknown", 0)

\* one opcode byte is given to both: to CPU._dispatch, and as IR with the
\* flag bits to the microcode ROM
DecodeOpcode ==
    /\ \E opcode \in 0..255 : \E flags \in 0..7 :
          cpu' = [opcode |-> opcode, flags |-> flags,
                  emu |-> dispatch(opcode),
                  ucode |-> Microcode(opcode, flags)]
    /\ UNCHANGED <<system, fine, unit, setup, asm, twin>>

\* no System is built: opcodes are decoded
InitIsa == Hardware("isa") /\ asm = NoAssembler /\ cpu = NoCpu

NextIsa == DecodeOpcode

SpecIsa == InitIsa /\ [][NextIsa]_vars

-----------------------------------------------------------------------------
(* Properties *)

CombParts == {"74HC04", "74HC08", "74HC32", "74HC00", "74HC138", "74HC154",
              "74HC283", "74HC245", "GAL22V10"}

CombOnly == \A j \in 1..Len(chips) : chips[j].part_name \in CombParts

\* the net states are those the last returned eval_combinational() left
AsSnapped == \A n \in DOMAIN snap.states : nets[n].state = snap.states[n]

\* Net.eval has run on every net with the driver values of this state
PassJustRan == snap.valid \/ (pc = "settle" /\ iter >= 1)

\* C1 as stated: in every topology of combinational chips, once
\* eval_combinational() has returned and no input has changed since, the
\* nets are at a fixed point and further calls leave every net state as it was
C1_Original ==
    (CombOnly /\ snap.valid) =>
        (AsSnapped /\ FixedPoint(nets, chips, clk_val, ext))

\* C1 amended: the same, for the calls that returned converged (their last
\* pass changed no net)
C1_ConvergedIsStable ==
    (CombOnly /\ snap.valid /\ snap.conv) =>
        (AsSnapped /\ FixedPoint(nets, chips, clk_val, ext))

\* a second call on the settled inverter chain has returned after one pass
C1_Witness ==
    /\ bench = "chain"
    /\ pc = "idle"
    /\ snap.valid /\ snap.conv
    /\ snap.passes = 1
    /\ ext["in"] = 0
    /\ nets["N1"].state = 1

RECURSIVE TickEvents(_, _)
\* tick() of chips j..n in registration order
TickEvents(j, n) ==
    IF j > n THEN <<>> ELSE <<Event("tick", j)>> \o TickEvents(j + 1, n)

TickReturned == pc = "idle" /\ snap.valid /\ Len(log) > 1

\* C2 as stated: a tick() is clk=1, settle, all chip ticks, settle, clk=0,
\* settle, all chip ticks, settle, and nothing more; CLK reads 0 on return
C2_Original ==
    TickReturned =>
        /\ log = <<Event("clk1", 0), Event("settle", 0)>>
                 \o TickEvents(1, Len(chips))
                 \o <<Event("settle", 0), Event("clk0", 0), Event("settle", 0)>>
                 \o TickEvents(1, Len(chips))
                 \o <<Event("settle", 0)>>
        /\ nets["CLK"].state = 0

\* C2 amended: the same sequence followed by one more settle (five settles),
\* every chip ticked exactly twice, CLK reads 0 on return
C2_TickOrder ==
    TickReturned =>
        /\ log = <<Event("clk1", 0), Event("settle", 0)>>
                 \o TickEvents(1, Len(chips))
                 \o <<Event("settle", 0), Event("clk0", 0), Event("settle", 0)>>
                 \o TickEvents(1, Len(chips))
                 \o <<Event("settle", 0), Event("settle", 0)>>
        /\ \A j \in 1..Len(chips) :
              Cardinality({i \in 1..Len(log) : log[i] = Event("tick", j)}) = 2
        /\ nets["CLK"].state = 0

\* a tick() of the two-register bench has returned
C2_Witness ==
    /\ bench = "reg2"
    /\ TickReturned
    /\ Len(log) = 11
    /\ chips[2].val = 90

\* C3 as stated: whenever a chip's tick() is about to be invoked after a
\* converged settle, one more pass would change no net
C3_Original ==
    (pc = "ticks" /\ snap.conv) => FixedPoint(nets, chips, clk_val, ext)

\* C3 amended: whenever a chip's tick() is about to be invoked after a
\* converged settle, the net states are still the ones that settle left, and
\* at the first chip of the loop they are a fixed point of the network
C3_TicksSeeSettledNets ==
    (pc = "ticks" /\ snap.conv) =>
        /\ AsSnapped
        /\ k = 0 => FixedPoint(nets, chips, clk_val, ext)

\* the second register is about to tick on the rising edge, the first has
\* just latched a new byte
C3_Witness ==
    /\ bench = "reg2"
    /\ pc = "ticks" /\ tstep = 3 /\ k = 1
    /\ snap.conv
    /\ chips[1].val = 90
    /\ chips[2].val = 0

\* the values the driving drivers of a net report in this state
Driven(net) ==
    {DriverValue(net.drivers[i], chips, clk_val, ext) : i \in 1..Len(net.drivers)}
        \ {None, HiZ}

\* the values the driving chip output pins wired to a net report
DrivenByPins(net) ==
    {DriverValue(net.drivers[i], chips, clk_val, ext) :
        i \in {j \in 1..Len(net.drivers) : net.drivers[j].kind = "pin"}}
        \ {None, HiZ}

\* C4: when two chip output pins wired to one net drive differing values
\* in a pass, the engine reports the contention (or gives the net a
\* conflict value that is neither 0 nor 1)
C4_ContentionReported ==
    (PassJustRan /\ \E n \in DOMAIN nets : Cardinality(DrivenByPins(nets[n])) > 1)
        => (reports # {} \/ \E n \in DOMAIN nets : nets[n].next_state \notin {0, 1})

PullOr0(net) == IF net.pull # None THEN net.pull ELSE 0

C6_AgreedValue ==
    PassJustRan =>
        \A n \in DOMAIN nets :
            /\ \A v \in {0, 1} : Driven(nets[n]) = {v} => nets[n].next_state = v
            /\ Driven(nets[n]) = {} => nets[n].next_state = PullOr0(nets[n])

\* an earlier driver drives 1, the later ones are 'Z' and None, every net
\* took 1; before that all were tri-stated and pulled
C6_Witness ==
    /\ bench = "net"
    /\ PassJustRan
    /\ ext["d1"] = 1 /\ ext["d2"] = HiZ /\ ext["d3"] = None
    /\ nets["P0"].next_state = 1
    /\ nets["PN"].next_state = 1

\* net n is the one the running step applies
Applying(n) == pc = "settle" /\ sub.ph = "apply" /\ order[sub.idx] = n

\* C7: no step but Net.apply() changes a net's state: Net.eval() writes
\* next_state only, chip eval()/tick() write no net; apply() makes state
\* the old next_state and returns True exactly when the two differed
C7_StateOnlyByApply ==
    [][\A n \in DOMAIN nets :
          /\ ~Applying(n) => nets'[n].state = nets[n].state
          /\ (pc = "settle" /\ sub.ph = "eval" /\ order[sub.idx] = n) =>
                nets'[n] = [nets[n] EXCEPT !.next_state = nets'[n].next_state]
          /\ Applying(n) =>
                /\ nets'[n] = [nets[n] EXCEPT !.state = nets[n].next_state]
                /\ ret' = (nets[n].state # nets[n].next_state)]_vars

\* an apply() has just changed a net from 0 to 1 and returned True, and the
\* next net of the pass is about to be evaluated
C7_Witness ==
    /\ pc = "settle"
    /\ sub.ph = "eval" /\ sub.idx > 1
    /\ ret
    /\ changed
    /\ nets[order[sub.idx - 1]].state = 1

\* C9: no eval_combinational() makes more than 30 passes, no tick() more
\* than 5 settles, and every call that has started returns
C9_CallsTerminate ==
    /\ [](/\ iter < 30
          /\ snap.passes <= 30
          /\ Cardinality({i \in 1..Len(log) : log[i].ev = "settle"}) <= 5)
    /\ (pc \notin {"setup", "idle"}) ~> (pc = "idle")

\* a tick() of the oscillating bench has returned, all five settles having
\* run to the cap
C9_Witness ==
    /\ bench = "loop"
    /\ pc = "idle"
    /\ snap.valid /\ snap.passes = 30
    /\ Cardinality({i \in 1..Len(log) : log[i].ev = "settle"}) = 5

\* C8: a settle that returns without having reached a fixed point has run
\* all 30 passes and printed the warning; the call returns normally, so a
\* tick() still runs every statement of its body after the warning
C8_NonConvergenceReported ==
    /\ (snap.valid /\ ~FixedPoint(nets, chips, clk_val, ext)) =>
            (snap.warned /\ snap.passes = MaxPasses)
    /\ (TickReturned /\ warning) => Len(log) = 7 + 2 * Len(chips)

\* a tick() of the self-feeding inverter has returned after the warning,
\* its last settle having used all 30 passes
C8_Witness ==
    /\ bench = "loop"
    /\ TickReturned
    /\ warning
    /\ ~snap.conv
    /\ snap.warned
    /\ snap.passes = MaxPasses

QBus == get_bus_val(nets, Names("Q", 8), 1)

\* C10: one enabled register on CLK with byte v driven on D: the settled
\* output bus reads the held byte before tick() and up to the rising-edge
\* chip tick, and reads v when that tick() has returned
C10_RegisterLatches ==
    (bench = "reg" /\ pc # "setup" /\ ext["oe"] = 0) =>
        /\ (pc = "idle" /\ snap.valid /\ snap.conv) => QBus = chips[1].val
        /\ (pc = "ticks" /\ tstep = 3) => QBus = chips[1].val
        /\ TickReturned => (chips[1].val = ext["data"] /\ QBus = ext["data"])

\* a tick() with 0x5A on the data bus has returned and the bus reads 0x5A
C10_Witness ==
    /\ bench = "reg"
    /\ TickReturned
    /\ ext["oe"] = 0
    /\ ext["data"] = 90
    /\ QBus = 90
    /\ chips[1].val = 90

-----------------------------------------------------------------------------
(* Properties of single chips *)

\* the chip on the harness
U == chips[1]

\* what it reads on one pin
Pin(p) == Chip_read(chips[1], p, nets)

\* the harness's last step was a direct call of the chip's method m, so the
\* nets are those the call read and `before` is the chip as the call found it
Called(part, m) == bench = part /\ pc = "idle" /\ call = m

\* the outputs named by pins show the bits of v, pins[1] being bit 0
Shows(pins, v) ==
    \A i \in 1..Len(pins) : U.out_states[pins[i]] = (v \div 2 ^ (i - 1)) % 2

\* the tick() just made read CLK = 1 where the tick() before it read 0
\* (prev_clk, which is 0 before the first tick())
RisingEdge == Pin("CLK") = 1 /\ before.prev_clk = 0

\* C11: the byte a 74HC574 holds changes only in a tick() that reads CLK = 1
\* where the previous tick() read 0, and is then the byte on D0..D7; no
\* other tick(), no eval() and no change of D or ~OE changes it, and an
\* eval() with ~OE = 0 shows the held byte on Q0..Q7
C11_LatchOnlyOnEdge ==
    (bench = "74HC574" /\ pc = "idle") =>
        /\ U.val # before.val => (call = "tick" /\ RisingEdge)
        /\ (call = "tick" /\ RisingEdge) => U.val = Reads(DPins)
        /\ (call = "eval" /\ Pin("~OE") = 0) => Shows(QPins, U.val)

\* a tick() on a rising edge has replaced the held 0x5A by the 0xFF on D
\* while the outputs still show 0x5A
C11_Witness ==
    /\ Called("74HC574", "tick")
    /\ RisingEdge
    /\ before.val = 90
    /\ U.val = 255
    /\ Shows(QPins, 90)

\* C12: a 74HC161 that reads ~CLR = 0 has count 0 and QA..QD all 0 after
\* eval(), whatever it counted before, and a tick() leaves the count at 0,
\* on a rising edge with load or count enabled too
C12_ClearHoldsZero ==
    (bench = "74HC161" /\ pc = "idle" /\ Pin("~CLR") = 0) =>
        /\ call = "eval" => (U.val = 0 /\ Shows(QABCD, 0))
        /\ (call = "tick" /\ before.val = 0) => U.val = 0

\* a cleared counter has ticked on a rising edge with load asserted and 9
\* on A..D, and still counts 0
C12_Witness ==
    /\ Called("74HC161", "tick")
    /\ Pin("~CLR") = 0
    /\ RisingEdge
    /\ Pin("~LOAD") = 0
    /\ Reads(ABCD) = 9
    /\ before.val = 0
    /\ U.val = 0
    /\ Shows(QABCD, 0)

\* C13 as stated: with ~CLR = 1 and ENP = ENT = 1 a tick() on a rising edge
\* makes the count (c + 1) mod 16, and a tick() without one leaves it
C13_Original ==
    Called("74HC161", "tick") =>
        /\ (RisingEdge /\ Pin("~CLR") = 1 /\ Pin("ENP") = 1 /\ Pin("ENT") = 1)
                => U.val = (before.val + 1) % 16
        /\ ~RisingEdge => U.val = before.val

\* C13 amended: the same with ~LOAD reading 1 as well
C13_CountsUp ==
    Called("74HC161", "tick") =>
        /\ (RisingEdge /\ Pin("~CLR") = 1 /\ Pin("ENP") = 1 /\ Pin("ENT") = 1
                /\ Pin("~LOAD") = 1)
                => U.val = (before.val + 1) % 16
        /\ ~RisingEdge => U.val = before.val

\* the counter has wrapped from 15 to 0 on a rising edge
C13_Witness ==
    /\ Called("74HC161", "tick")
    /\ RisingEdge
    /\ Pin("~CLR") = 1 /\ Pin("ENP") = 1 /\ Pin("ENT") = 1
    /\ Pin("~LOAD") = 1
    /\ before.val = 15
    /\ U.val = 0

\* C14: after eval() of a 74HC161, RCO is 1 exactly when the count is 15 and
\* ENT reads 1, whatever ENP, ~LOAD and CLK read
C14_RippleCarry ==
    Called("74HC161", "eval") =>
        U.out_states["RCO"] = IF U.val = 15 /\ Pin("ENT") = 1 THEN 1 ELSE 0

\* RCO is 1 at count 15 with ENT = 1 while ENP reads 0
C14_Witness ==
    /\ Called("74HC161", "eval")
    /\ U.val = 15
    /\ Pin("ENT") = 1
    /\ Pin("ENP") = 0
    /\ U.out_states["RCO"] = 1

\* C15: an eval() of a memory with ~CE = 0, ~OE = 0, ~WE = 1 and address a,
\* made next after an eval() with ~CE = 0, ~WE = 0, address a and data v,
\* drives Q0..Q7 with the bits of v
C15_MemoryRoundTrip ==
    (/\ bench \in {"28C256", "62256"} /\ pc = "idle" /\ call = "eval"
     /\ wrote.valid /\ wrote.age = 1
     /\ Pin("~CE") = 0 /\ Pin("~OE") = 0 /\ Pin("~WE") = 1
     /\ Reads(A15) = wrote.addr)
        => Shows(QPins, wrote.data)

\* 0x5A written at the top address has been read back from the SRAM
C15_Witness ==
    /\ Called("62256", "eval")
    /\ wrote.valid /\ wrote.age = 1
    /\ wrote.data = 90
    /\ wrote.addr = 32767
    /\ Pin("~CE") = 0 /\ Pin("~OE") = 0 /\ Pin("~WE") = 1
    /\ Reads(A15) = 32767
    /\ Shows(QPins, 90)

\* the decoder on the harness is enabled
Enabled138 == Pin("G1") = 1 /\ Pin("~G2A") = 0 /\ Pin("~G2B") = 0
Enabled154 == Pin("~G1") = 0 /\ Pin("~G2") = 0

\* the outputs that are low
Low == {p \in DOMAIN U.out_states : U.out_states[p] = 0}

\* C16: after eval() of a decoder every output is 0 or 1; the low outputs
\* are exactly the one whose index is the binary value of the select pins
\* if the decoder is enabled, and none if it is not
C16_DecoderOneLow ==
    /\ Called("74HC138", "eval") =>
        /\ \A p \in DOMAIN U.out_states : U.out_states[p] \in {0, 1}
        /\ Low = IF Enabled138
                 THEN {"~Y" \o ToString(4 * Pin("C") + 2 * Pin("B") + Pin("A"))}
                 ELSE {}
    /\ Called("74HC154", "eval") =>
        /\ \A p \in DOMAIN U.out_states : U.out_states[p] \in {0, 1}
        /\ Low = IF Enabled154
                 THEN {"~Y" \o ToString(8 * Pin("D") + 4 * Pin("C")
                                        + 2 * Pin("B") + Pin("A"))}
                 ELSE {}

\* the enabled 138 with select 5 drives ~Y5 low and the other seven high
C16_Witness ==
    /\ Called("74HC138", "eval")
    /\ Enabled138
    /\ Reads(<<"A", "B", "C">>) = 5
    /\ U.out_states["~Y5"] = 0
    /\ \A p \in DOMAIN U.out_states \ {"~Y5"} : U.out_states[p] = 1

\* the tick() just made saw one of the chip's clock inputs rise: CLK, or UP
\* or DOWN of the up/down counter
ClockRose ==
    IF bench = "74HC193"
    THEN \/ Pin("UP") = 1 /\ before.prev_up = 0
         \/ Pin("DOWN") = 1 /\ before.prev_dn = 0
    ELSE "CLK" \in Inputs(bench) /\ RisingEdge

\* C17: a tick() of any chip of the catalog changes the chip's register
\* byte, count or memory bytes only if its clock input reads 1 and read 0 at
\* the previous tick()
C17_TickChangesOnEdgeOnly ==
    (bench \in Catalog /\ pc = "idle" /\ call = "tick") =>
        ((U.val # before.val \/ U.mem # before.mem) => ClockRose)

\* C18: a tick() of any chip of the catalog leaves the chip's out_states as
\* they were
C18_TickKeepsOutputs ==
    (bench \in Catalog /\ pc = "idle" /\ call = "tick") =>
        U.out_states = before.out_states

\* a register has latched 0x5A in a tick() while its outputs still show 0
C18_Witness ==
    /\ Called("74HC574", "tick")
    /\ before.val = 0
    /\ U.val = 90
    /\ Pin("~OE") = 0
    /\ Shows(QPins, 0)

\* C19: for any chip of the catalog, an eval() made right after an eval() on
\* the same net states leaves out_states and the internal state as the
\* first left them
C19_EvalIdempotent ==
    (bench \in Catalog /\ pc = "idle" /\ call = "eval") =>
        LET again == Chip_eval(U, nets)
        IN  /\ again.out_states = U.out_states
            /\ again.val = U.val
            /\ again.mem = U.mem

\* an eval() has cleared an up/down counter that counted 9, and a second
\* eval() would change nothing
C19_Witness ==
    /\ Called("74HC193", "eval")
    /\ Pin("CLR") = 1
    /\ before.val = 9
    /\ U.val = 0
    /\ Chip_eval(U, nets) = U

\* every key of every chip's connections is a pin the chip declares
KeysDeclared ==
    \A j \in 1..Len(chips) :
        DOMAIN chips[j].connections \subseteq
            (Range(InputPins(chips[j].part_name))
                \cup Range(OutputPins(chips[j].part_name)))

\* the next construction call is a wire() on a pin the chip does not declare
BadWireNext ==
    /\ pc = "setup"
    /\ built < Len(Script(bench))
    /\ LET c == Script(bench)[built + 1]
       IN  /\ c.op = "wire"
           /\ c.pin \notin Range(InputPins(chips[c.chip].part_name))
           /\ c.pin \notin Range(OutputPins(chips[c.chip].part_name))

\* C20: a wire() on a pin the chip does not declare raises an error naming
\* the pin and the chip and leaves every chip's connections, the wiring log
\* and every net's drivers as they were; so the keys of every connection
\* map are always declared pins
C20_BadPinRejected ==
    /\ []KeysDeclared
    /\ [][BadWireNext =>
            LET c == Script(bench)[built + 1]
            IN  /\ error' = <<<<c.pin, chips[c.chip].ref,
                                chips[c.chip].part_name>>>>
                /\ chips' = chips
                /\ wiring_log' = wiring_log
                /\ \A n \in DOMAIN nets' :
                      nets'[n].drivers =
                          IF n \in DOMAIN nets THEN nets[n].drivers ELSE <<>>
         ]_vars

\* wiring Q8 of the register U1 has raised, after CLK and Q0 were wired
C20_Witness ==
    /\ bench = "badpin"
    /\ pc = "raised"
    /\ error = <<<<"Q8", "U1", "74HC574">>>>
    /\ DOMAIN chips[1].connections = {"CLK", "Q0"}
    /\ Len(wiring_log) = 2
    /\ nets["BUS0"].drivers = <<PinDriver(1, "Q0")>>

\* C21: an eval() that reads an unwired pin reads 0 there and fails with
\* nothing, and on a wired pin it reads the state of the net, not the
\* next_state assigned to it: inverter 2 (input unwired) drives 1, inverters
\* 1 and 3 drive the inverse of their input nets' state
C21_ReadDefaultsToZero ==
    Called("partial", "eval") =>
        /\ U.out_states["2Y"] = 1
        /\ U.out_states["1Y"] = 1 - nets["1A"].state
        /\ U.out_states["3Y"] = 1 - nets["3A"].state
        /\ error = <<>>

\* an eval() made while net 1A holds 0 and is assigned 1 but not applied
\* has driven 1Y with 1, and 2Y with 1
C21_Witness ==
    /\ Called("partial", "eval")
    /\ nets["1A"].state = 0
    /\ nets["1A"].next_state = 1
    /\ "2A" \notin DOMAIN U.connections
    /\ U.out_states["1Y"] = 1
    /\ U.out_states["2Y"] = 1

\* the bits set in a byte
BitsOf(v) == {i \in 0..7 : (v \div 2 ^ i) % 2 = 1}

\* the bits of the result the ALU is to compute for op on a and b
AluBits(op, a, b) ==
    CASE op = 0 -> BitsOf(IF a + b > 255 THEN a + b - 256 ELSE a + b)
      [] op = 1 -> BitsOf(IF a < b THEN a - b + 256 ELSE a - b)
      [] op = 2 -> BitsOf(a) \cap BitsOf(b)
      [] op = 3 -> BitsOf(a) \cup BitsOf(b)
      [] op = 4 -> (BitsOf(a) \ BitsOf(b)) \cup (BitsOf(b) \ BitsOf(a))
      [] op = 5 -> (0..7) \ BitsOf(a)
      [] op = 6 -> {i + 1 : i \in BitsOf(a) \ {7}}
      [] op = 7 -> {i - 1 : i \in BitsOf(a) \ {0}}

\* the carry flag it is to report
AluCarry(op, a, b) ==
    CASE op = 0 -> a + b > 255
      [] op = 1 -> a < b
      [] op = 6 -> 7 \in BitsOf(a)
      [] op = 7 -> 0 \in BitsOf(a)
      [] OTHER -> FALSE

\* C22: after eval() of the ALU with bytes a and b on its operand pins and op
\* on OP0..OP2, the flags are those of res = a+b, a-b (mod 256), a AND b,
\* a OR b, a XOR b, NOT a, a<<1 (mod 256), a>>1 for op 0..7: Z = 1 iff res
\* is 0, N is bit 7 of res, C is the carry, the borrow, or the bit shifted
\* out, and 0 for the logical ops; Q0..Q7 are the bits of res if ~OE reads 0
\* and all 'Z' otherwise
C22_AluComputes ==
    Called("GAL22V10", "eval") =>
        LET a == Reads(A8)
            b == Reads(B8)
            op == Reads(OP3)
            res == AluBits(op, a, b)
            o == U.out_states
        IN  /\ o["Z"] = IF res = {} THEN 1 ELSE 0
            /\ o["N"] = IF 7 \in res THEN 1 ELSE 0
            /\ o["C"] = IF AluCarry(op, a, b) THEN 1 ELSE 0
            /\ Pin("~OE") = 0 =>
                    \A i \in 0..7 : o[QPins[i + 1]] = IF i \in res THEN 1 ELSE 0
            /\ Pin("~OE") # 0 => \A i \in 0..7 : o[QPins[i + 1]] = HiZ

\* the ALU has subtracted 0xFF from 0x01: result 0x02 on Q, borrow set
C22_Witness ==
    /\ Called("GAL22V10", "eval")
    /\ Reads(A8) = 1 /\ Reads(B8) = 255 /\ Reads(OP3) = 1
    /\ Pin("~OE") = 0
    /\ Shows(QPins, 2)
    /\ U.out_states["C"] = 1
    /\ U.out_states["Z"] = 0

\* the settled sum outputs of the cascade read as one byte
SumBus == get_bus_val(nets, Names("SUM", 8), 1)

\* C29: after eval() a 74HC283 shows (a + b + C0) mod 16 on S1..S4 and
\* (a + b + C0) div 16 on C4; two adders, the low one's C4 wired to the high
\* one's C0, show (x + y) mod 256 on the eight sum nets and (x + y) div 256
\* on the high C4 when eval_combinational() has returned
C29_AdderSums ==
    /\ Called("74HC283", "eval") =>
          LET sum == Reads(A4) + Reads(B4) + Pin("C0")
          IN  /\ Shows(S4, sum % 16)
              /\ U.out_states["C4"] = sum \div 16
    /\ (bench = "adder8" /\ pc = "idle" /\ snap.valid) =>
          /\ snap.conv
          /\ SumBus = (ext["x"] + ext["y"]) % 256
          /\ nets["COUT"].state = (ext["x"] + ext["y"]) \div 256

\* the cascade has settled on 0xFF + 0x01: the carry rippled out of the low
\* adder through the high one, leaving sum 0 and carry 1
C29_Witness ==
    /\ bench = "adder8" /\ pc = "idle" /\ snap.valid
    /\ ext["x"] = 255 /\ ext["y"] = 1
    /\ nets["ADD1_C4"].state = 1
    /\ SumBus = 0
    /\ nets["COUT"].state = 1

-----------------------------------------------------------------------------
(* Contention, register outputs, counter priorities, memory frame *)

\* the positions of a net's drivers that drive in this state
Driving(net) ==
    {i \in 1..Len(net.drivers) :
        DriverValue(net.drivers[i], chips, clk_val, ext) \notin {None, HiZ}}

\* the value of the driver registered last among those driving
LastDriven(net) ==
    LET last == CHOOSE i \in Driving(net) : \A j \in Driving(net) : j <= i
    IN  DriverValue(net.drivers[last], chips, clk_val, ext)

\* C25: after a pass every net with a driving driver has as next_state the
\* value of the last driving driver in registration order, also when the
\* drivers disagree, and nothing has been raised or reported
C25_LastDriverWins ==
    PassJustRan =>
        /\ \A n \in DOMAIN nets :
              Driving(nets[n]) # {} => nets[n].next_state = LastDriven(nets[n])
        /\ reports = {}
        /\ error = <<>>

\* two inverter outputs wired to net X, 1Y first, drive 0 and 1: X takes
\* the 1 of 2Y
C25_Witness ==
    /\ bench = "contend"
    /\ PassJustRan
    /\ Len(nets["X"].drivers) = 2
    /\ DriverValue(nets["X"].drivers[1], chips, clk_val, ext) = 0
    /\ DriverValue(nets["X"].drivers[2], chips, clk_val, ext) = 1
    /\ nets["X"].next_state = 1

\* every output named by pins is tri-stated
AllZ(pins) == \A i \in 1..Len(pins) : U.out_states[pins[i]] = HiZ

\* C26: after eval() of a 74HC574 the outputs Q0..Q7 show the bits of the
\* latched byte if ~OE reads 0 and are all 'Z' if ~OE reads 1; the latched
\* byte is the one the chip held before the call
C26_RegisterOutputs ==
    Called("74HC574", "eval") =>
        /\ Pin("~OE") = 0 => Shows(QPins, U.val)
        /\ Pin("~OE") = 1 => AllZ(QPins)
        /\ U.val = before.val

\* a register that latched 0xA5 and showed it has been disabled: the
\* outputs are 'Z' and the byte is still held
C26_Witness ==
    /\ Called("74HC574", "eval")
    /\ Pin("~OE") = 1
    /\ before.out_states["Q0"] = 1
    /\ AllZ(QPins)
    /\ U.val = 165

\* C27: a tick() of a 74HC161 that sees a rising clock edge leaves the
\* count to be cleared if ~CLR reads 0, else loads A..D if ~LOAD reads 0
\* whatever the enables read, else increments modulo 16 if ENP and ENT
\* read 1, else keeps the count; an eval() with ~CLR = 0 makes the count 0
C27_ClearLoadCount ==
    /\ (Called("74HC161", "tick") /\ RisingEdge) =>
          U.val = IF Pin("~CLR") = 0 THEN before.val
                  ELSE IF Pin("~LOAD") = 0 THEN Reads(ABCD)
                  ELSE IF Pin("ENP") = 1 /\ Pin("ENT") = 1
                       THEN (before.val + 1) % 16
                  ELSE before.val
    /\ (Called("74HC161", "eval") /\ Pin("~CLR") = 0) =>
          (U.val = 0 /\ Shows(QABCD, 0))

\* with both enables high and ~LOAD low a rising edge has loaded 9 over a
\* count of 15
C27_Witness ==
    /\ Called("74HC161", "tick")
    /\ RisingEdge
    /\ Pin("~CLR") = 1 /\ Pin("~LOAD") = 0
    /\ Pin("ENP") = 1 /\ Pin("ENT") = 1
    /\ Reads(ABCD) = 9
    /\ before.val = 15
    /\ U.val = 9

\* the tick() just made saw UP, DOWN go from 0 to 1
UpRose == Pin("UP") = 1 /\ before.prev_up = 0
DownRose == Pin("DOWN") = 1 /\ before.prev_dn = 0

\* C28: a tick() of a 74HC193 with CLR = 0 and ~LOAD = 1 counts up modulo
\* 16 when UP rose while DOWN reads 1 without rising, counts down modulo 16
\* when DOWN rose while UP reads 1 without rising, and keeps the count when
\* neither rose
C28_UpDownCounts ==
    (Called("74HC193", "tick") /\ Pin("CLR") = 0 /\ Pin("~LOAD") = 1) =>
        /\ (UpRose /\ Pin("DOWN") = 1 /\ ~DownRose) =>
                U.val = (before.val + 1) % 16
        /\ (DownRose /\ Pin("UP") = 1 /\ ~UpRose) =>
                U.val = (before.val + 15) % 16
        /\ (~UpRose /\ ~DownRose) => U.val = before.val

\* a rising DOWN with UP held high has taken the count from 0 to 15
C28_Witness ==
    /\ Called("74HC193", "tick")
    /\ Pin("CLR") = 0 /\ Pin("~LOAD") = 1
    /\ DownRose /\ Pin("UP") = 1 /\ ~UpRose
    /\ before.val = 0
    /\ U.val = 15

\* the memory on the harness is selected for reading
ReadMode == Pin("~CE") = 0 /\ Pin("~OE") = 0 /\ Pin("~WE") = 1

\* C30: after eval() of a memory Q0..Q7 show the addressed byte if ~CE = 0,
\* ~OE = 0 and ~WE = 1 and are all 'Z' in every other case; the stored
\* bytes differ from those before the harness's last step only if it was an
\* eval() with ~CE = 0 and ~WE = 0, and then only at the addressed byte
C30_MemoryOutputsAndFrame ==
    (bench \in {"28C256", "62256"} /\ pc = "idle") =>
        /\ (call = "eval" /\ ReadMode) =>
                Shows(QPins, MemAt(U.mem, Reads(A15)))
        /\ (call = "eval" /\ ~ReadMode) => AllZ(QPins)
        /\ U.mem # before.mem =>
                /\ call = "eval"
                /\ Pin("~CE") = 0 /\ Pin("~WE") = 0
                /\ \A a \in Addrs \ {Reads(A15)} :
                        MemAt(U.mem, a) = MemAt(before.mem, a)
                /\ DOMAIN U.mem \cup DOMAIN before.mem \subseteq Addrs

\* an eval() with ~CE = 0, ~OE = 0, ~WE = 0 has overwritten the byte at the
\* top address, left the byte at address 0 alone and tri-stated the outputs
C30_Witness ==
    /\ Called("62256", "eval")
    /\ Pin("~CE") = 0 /\ Pin("~OE") = 0 /\ Pin("~WE") = 0
    /\ Reads(A15) = 32767
    /\ MemAt(before.mem, 32767) # MemAt(U.mem, 32767)
    /\ MemAt(before.mem, 32767) # 0
    /\ MemAt(U.mem, 0) # 0
    /\ AllZ(QPins)

-----------------------------------------------------------------------------
(* Properties of the assembler and of the instruction decoders *)

\* assemble() has returned the binary
Assembled == asm.phase = "done"

\* no instruction emitted spans a page boundary
NoInstructionCrosses ==
    Assembled =>
        \A i \in DOMAIN asm.emitted :
            LET e == asm.emitted[i]
            IN  e.addr \div 256 = (e.addr + e.size - 1) \div 256

\* C23: when assemble() returns without error no emitted instruction spans
\* a 256-byte page boundary, every instruction is emitted at the address
\* pass 1 computed for it, and a label on an instruction that got NOP
\* padding is the address the instruction is emitted at
C23_PaddedWithinPages ==
    /\ NoInstructionCrosses
    /\ Assembled =>
          \A i \in DOMAIN asm.emitted :
              LET e == asm.emitted[i]
                  line == asm.lines[i]
              IN  /\ e.addr = asm.planned[i]
                  /\ (asm.aligned[i] > 0 /\ line.label # "") =>
                        asm.labels[line.label] = e.addr

\* C24: every opcode that microcode.py defines (in INSTRUCTIONS or in
\* JUMP_MAP) is decoded by the emulator as the same instruction with the
\* same number of operand bytes, and every opcode the emulator decodes is
\* so defined by microcode.py
C24_SameIsa ==
    (cpu.opcode # None /\ (cpu.ucode.name # "undefined" \/ cpu.emu.name # "unknown"))
        => cpu.emu = cpu.ucode

-----------------------------------------------------------------------------
(* System.net *)

\* the step is a call System.net(name, pull): one of the construction
\* script, or one the harness makes between calls
NetCallOf(name, pull) ==
    \/ /\ Setup
       /\ Script(bench)[built + 1] = NetCall(name, pull)
    \/ /\ CallNet
       /\ log' = <<NetEvent(name, pull)>>

\* C31: System.net(name, pull) is get-or-create. The first call for a name
\* makes a Net with state = next_state = pull (0 for pull None) and no
\* driver; a call for a name the System has returns that Net with pull,
\* state and drivers as they were, whatever pull the call gives; no step
\* removes a net, so the set of names only grows.
C31_NetGetOrCreate ==
    [][/\ DOMAIN nets \subseteq DOMAIN nets'
       /\ \A name \in NetNames : \A pull \in {None, 0, 1} :
             NetCallOf(name, pull) =>
                /\ DOMAIN nets' = DOMAIN nets \cup {name}
                /\ \A n \in DOMAIN nets : nets'[n] = nets[n]
                /\ name \notin DOMAIN nets =>
                      /\ nets'[name].pull = pull
                      /\ nets'[name].state = (IF pull = None THEN 0 ELSE pull)
                      /\ nets'[name].next_state = nets'[name].state
                      /\ nets'[name].drivers = <<>>]_vars

\* net N, made with pull 1, holds 0 from its inverter and has just been
\* asked for with pull 0; net P has been made between calls with pull 1
C31_Witness ==
    /\ bench = "renet"
    /\ log = <<NetEvent("N", 0)>>
    /\ nets["N"].pull = 1
    /\ nets["N"].state = 0
    /\ Len(nets["N"].drivers) = 1
    /\ "P" \in DOMAIN nets
    /\ nets["P"].pull = 1
    /\ nets["P"].state = 1

-----------------------------------------------------------------------------
(* The pass limit and acyclic chains *)

\* eval_combinational() has returned on a chain of inverters, none of which
\* feeds back
SeriesReturned(b) == bench = b /\ pc = "idle" /\ snap.valid

\* the claim as stated: no chain of inverters, however long, makes
\* eval_combinational() print
C32_Original ==
    \A b \in {"chain", "shallow", "deep"} :
        SeriesReturned(b) => snap.conv /\ ~snap.warned

\* C32: on a chain of at most 28 inverters in series behind a driven input
\* net every eval_combinational() call returns at the fixed point without
\* printing the warning. A chain of 29, which has no loop either, is at its
\* fixed point after the 30th pass too, but a change that reaches its last
\* net in that pass makes the call print the warning.
C32_ShortChainsConverge ==
    /\ \A b \in {"chain", "shallow"} :
          SeriesReturned(b) =>
             /\ snap.conv
             /\ ~snap.warned
             /\ FixedPoint(nets, chips, clk_val, ext)
             /\ \A i \in 1..SeriesLen(b) :
                   nets["N" \o ToString(i)].state =
                       1 - nets["N" \o ToString(i - 1)].state
    /\ SeriesReturned("deep") =>
          /\ FixedPoint(nets, chips, clk_val, ext)
          /\ snap.warned <=> ~snap.conv

\* the chain of 28 has settled in the 29th pass and returned in the 30th,
\* the last one there is
C32_Witness ==
    /\ SeriesReturned("shallow")
    /\ snap.passes = MaxPasses
    /\ snap.conv
    /\ nets["N0"].state = 1

-----------------------------------------------------------------------------
(* Chips that tick together *)

\* tick() has just returned; `before` holds the chips as the call found them
Ticked == pc = "idle" /\ snap.valid /\ log = TickLog

\* C33: two output-enabled registers on CLK, each one's Q nets on the
\* other's D pins, exchange their bytes in one tick(): every chip's tick()
\* of the rising edge reads the nets as they settled before it, whichever
\* register was added first. The two Systems differ in that order.
C33_RegistersSwap ==
    bench = "swap" /\ Ticked =>
        /\ chips[1].val = before[2].val
        /\ chips[2].val = before[1].val
        /\ get_bus_val(nets, Names("X", 8), 1) = chips[1].val
        /\ get_bus_val(nets, Names("Y", 8), 1) = chips[2].val
        /\ twin.chips[1].ref = "U2"
        /\ twin.chips[1].val = chips[2].val
        /\ twin.chips[2].val = chips[1].val

\* the registers held 90 and 255 and hold 255 and 90
C33_Witness ==
    /\ bench = "swap"
    /\ Ticked
    /\ before[1].val = 90
    /\ before[2].val = 255
    /\ chips[1].val = 255
    /\ chips[2].val = 90

-----------------------------------------------------------------------------
(* The cascaded up/down counters *)

\* the eight-bit count of U_SP1 and U_SP0
Count8(chs) == chs[1].val + 16 * chs[2].val

\* the harness's SP_INC and SP_DEC
Inc == Bit(ext.ctl, 0)
Dec == Bit(ext.ctl, 1)

\* C37: the two 74HC193 of the stack-pointer tracker count as one
\* eight-bit counter: a tick() with inc = 1 and dec = 0 takes the count n to
\* (n + 1) mod 256, one with inc = 0 and dec = 1 to (n - 1) mod 256, one
\* with both 0 leaves it, for every n and every tick(), the first one after
\* construction too.
C37_TrackerCounts ==
    bench = "updown" /\ Ticked =>
        Count8(chips) =
            CASE Inc = 1 /\ Dec = 0 -> (Count8(before) + 1) % 256
              [] Inc = 0 /\ Dec = 1 -> (Count8(before) - 1) % 256
              [] OTHER -> Count8(before)

\* a tick() has carried from 0x0F to 0x10
C37_Witness ==
    /\ bench = "updown"
    /\ Ticked
    /\ Inc = 1
    /\ Dec = 0
    /\ Count8(before) = 15
    /\ Count8(chips) = 16

-----------------------------------------------------------------------------
(* Memory writes while the nets settle *)

\* eval_combinational() has just returned; `before` holds the chips as the
\* call found them
Evaluated == pc = "idle" /\ snap.valid /\ log = <<Event("settle", 0)>>

\* C35: what eval_combinational() leaves in a memory depends on the pins at
\* the fixed point only: the byte at the address read there is the data read
\* there if ~CE = 0 and ~WE = 0 hold there, and every other byte, or every
\* byte if they do not hold, is as the call found it.
C35_WritesOnlyAtFixedPoint ==
    bench = "memsys" /\ Evaluated /\ snap.conv =>
        LET ram == chips[1]
            addr == ReadSum(ram, A15, 1, nets)
            writes == /\ Chip_read(ram, "~CE", nets) = 0
                      /\ Chip_read(ram, "~WE", nets) = 0
        IN  \A a \in DOMAIN ram.mem \cup DOMAIN before[1].mem :
                MemAt(ram.mem, a) =
                    IF writes /\ a = addr THEN ReadSum(ram, DPins, 1, nets)
                    ELSE MemAt(before[1].mem, a)

-----------------------------------------------------------------------------
(* The two chip-tick phases of tick() *)

\* chip j is the next to tick and will see a rising edge on its CLK pin
Edge(j) ==
    /\ pc = "ticks"
    /\ k = j - 1
    /\ Chip_read(chips[j], "CLK", nets) = 1
    /\ chips[j].prev_clk = 0

\* the chip-tick loops of tick(): after the settle on CLK = 1 and after the
\* settle on CLK = 0
FirstPhase == pc = "ticks" /\ tstep = 3
SecondPhase == pc = "ticks" /\ tstep = 7

\* C36: in every tick(), the first after construction too, a chip clocked
\* from CLK sees its rising edge in the first chip-tick loop and none in
\* the second, and a chip clocked from the inverter of CLK sees its rising
\* edge in the second loop and none in the first: the register latches its
\* D pins in the first loop only, the counter counts one in the second only.
C36_OneEdgePerTick ==
    [][bench = "clocks" /\ pc = "ticks" =>
          /\ FirstPhase \/ SecondPhase
          /\ k = 1 =>
                /\ Edge(2) <=> FirstPhase
                /\ chips'[2].val =
                      IF FirstPhase THEN get_bus_val(nets, Names("DATA", 8), 1)
                      ELSE chips[2].val
          /\ k = 2 =>
                /\ Edge(3) <=> SecondPhase
                /\ chips'[3].val =
                      IF SecondPhase THEN (chips[3].val + 1) % 16
                      ELSE chips[3].val]_vars

\* the first tick(): the register has latched 90 in the first loop, and the
\* counter, still at 0, is about to count in the second
C36_Witness ==
    /\ bench = "clocks"
    /\ SecondPhase
    /\ Edge(3)
    /\ chips[3].val = 0
    /\ chips[2].val = 90

-----------------------------------------------------------------------------
(* The order of add() *)

\* the chip of the second System that the first System has as chip j
TwinOf(j) == twin.chips[TwinIndex(Script(bench), j)]

\* both Systems are built and no call is running
BothIdle ==
    bench \in TwinBenches /\ pc = "idle" /\ twin.built = Len(Script(bench))

\* C34: two Systems wired by the same wire() calls after add() calls in
\* different orders, and given the same eval_combinational() and tick()
\* calls with the same inputs, have the same state on every net and in
\* every chip after every call, also after calls that gave up after 30
\* passes.
C34_AddOrderIrrelevant ==
    BothIdle =>
        /\ DOMAIN twin.nets = DOMAIN nets
        /\ \A n \in DOMAIN nets :
              /\ twin.nets[n].state = nets[n].state
              /\ twin.nets[n].next_state = nets[n].next_state
        /\ twin.clk_val = clk_val
        /\ \A j \in 1..Len(chips) :
              /\ TwinOf(j).ref = chips[j].ref
              /\ TwinOf(j).val = chips[j].val
              /\ TwinOf(j).prev_clk = chips[j].prev_clk
              /\ TwinOf(j).out_states = chips[j].out_states
              /\ TwinOf(j).mem = chips[j].mem

\* the System with the clock inverter added first and the one with the
\* counter added first have both latched 90 and counted two ticks
C34_Witness ==
    /\ bench = "clocks"
    /\ BothIdle
    /\ Ticked
    /\ chips[1].ref = "UINV1"
    /\ twin.chips[1].ref = "U2"
    /\ chips[2].val = 90
    /\ chips[3].val = 2
    /\ twin.chips[1].val = 2

-----------------------------------------------------------------------------
(* Tri-state outputs enabled by one decoder *)

\* the chips with tri-state outputs on the shared nets
Sources == {j \in 1..Len(chips) : chips[j].part_name = "74HC574"}

\* out_states of chip j has a value other than 'Z'
Enabled(j) ==
    \E p \in DOMAIN chips[j].out_states : chips[j].out_states[p] # HiZ

\* C38: with the ~OE inputs of the chips on a shared net wired to distinct
\* outputs of one decoder, after every pass of every eval_combinational(),
\* the first pass after construction included, at most one of the chips has
\* outputs other than 'Z', and no net has two differing values driven onto it
C38_OneSourceDrives ==
    bench = "srcdec" =>
        /\ Cardinality({j \in Sources : Enabled(j)}) <= 1
        /\ \A n \in DOMAIN nets : Cardinality(DrivenByPins(nets[n])) <= 1

-----------------------------------------------------------------------------
(* Types *)

\* C39: in every reachable state every Net's state and next_state is 0 or 1,
\* never 'Z' or None, every register's latched value is in 0..255 and every
\* counter's count is in 0..15
C39_TypeInvariant ==
    /\ \A n \in DOMAIN nets :
          nets[n].state \in {0, 1} /\ nets[n].next_state \in {0, 1}
    /\ \A j \in 1..Len(chips) :
          /\ chips[j].part_name = "74HC574" => chips[j].val \in 0..255
          /\ chips[j].part_name \in {"74HC161", "74HC193"} =>
                chips[j].val \in 0..15

\* a call has settled the source bench with no register selected: every
\* driver of the data nets reports 'Z', and a register holds 255
C39_Witness ==
    /\ bench = "srcdec"
    /\ pc = "idle"
    /\ snap.valid
    /\ \A j \in Sources : ~Enabled(j)
    /\ chips[2].val = 255

-----------------------------------------------------------------------------
(* Control-word fields and the decoders of build_cpu *)

\* the data bus source fields (bits 0-3) with their codes
DataSource ==
    ("DS_NONE" :> 0) @@ ("DS_A" :> 1) @@ ("DS_B" :> 2) @@ ("DS_C" :> 3)
    @@ ("DS_D" :> 4) @@ ("DS_ALU" :> 5) @@ ("DS_MEM" :> 6) @@ ("DS_IPL" :> 7)
    @@ ("DS_IPH" :> 8) @@ ("DS_SP" :> 9) @@ ("DS_CONST_FF" :> 10)

\* the data bus destination fields (bits 4-7) with their codes
DataDest ==
    ("DD_NONE" :> 0) @@ ("DD_A" :> 1) @@ ("DD_B" :> 2) @@ ("DD_C" :> 3)
    @@ ("DD_D" :> 4) @@ ("DD_IR" :> 5) @@ ("DD_MEM" :> 6) @@ ("DD_H" :> 7)
    @@ ("DD_L" :> 8) @@ ("DD_IPL" :> 9) @@ ("DD_IPH" :> 10) @@ ("DD_SP" :> 11)
    @@ ("DD_OUT" :> 12)

\* what a field names: the register, memory or port its comment gives
Named ==
    ("DS_A" :> "A") @@ ("DS_B" :> "B") @@ ("DS_C" :> "C") @@ ("DS_D" :> "D")
    @@ ("DS_ALU" :> "ALU") @@ ("DS_MEM" :> "MEM") @@ ("DS_IPL" :> "IP_LO")
    @@ ("DS_IPH" :> "IP_HI") @@ ("DS_SP" :> "SP")
    @@ ("DS_CONST_FF" :> "CONST_FF")
    @@ ("DD_A" :> "A") @@ ("DD_B" :> "B") @@ ("DD_C" :> "C") @@ ("DD_D" :> "D")
    @@ ("DD_IR" :> "IR") @@ ("DD_MEM" :> "MEM") @@ ("DD_H" :> "H")
    @@ ("DD_L" :> "L") @@ ("DD_IPL" :> "IP_LO") @@ ("DD_IPH" :> "IP_HI")
    @@ ("DD_SP" :> "SP") @@ ("DD_OUT" :> "OUT")

\* build_cpu's source map: output ~Y<i> of src_dec is wired to net ~<X>_OE
src_dec ==
    (1 :> "A") @@ (2 :> "B") @@ (3 :> "C") @@ (4 :> "D") @@ (5 :> "ALU")
    @@ (6 :> "MEM") @@ (7 :> "IP_LO") @@ (8 :> "IP_HI") @@ (9 :> "SP")

\* build_cpu's dest map: wire_dst on dst_dec, ~MEM_WE, and the outputs of
\* dst_dec_uc, which has the same select inputs
dst_dec ==
    (1 :> "A") @@ (2 :> "B") @@ (3 :> "C") @@ (4 :> "D") @@ (5 :> "IR")
    @@ (6 :> "MEM") @@ (7 :> "IP_LO") @@ (8 :> "IP_HI") @@ (9 :> "SP")
    @@ (10 :> "OUT")

\* FETCH0, FETCH1, FETCH2
FETCH ==
    <<{"DS_IPL", "DD_L"}, {"DS_IPH", "DD_H"}, {"DS_MEM", "DD_IR", "IP_INC"}>>

\* the control words generate_microcode stores for opcode ir under the
\* flags, from uIP = 0 on
ControlWords(ir, flags) ==
    FETCH \o
    (IF ir \in DOMAIN JUMP_MAP
     THEN LET j == JUMP_MAP[ir]
          IN  IF (flags \div j.bit) % 2 = j.set
              THEN JMP_TAKEN_STEPS ELSE JMP_NOT_TAKEN_STEPS
     ELSE IF ir \in DOMAIN INSTRUCTIONS THEN INSTRUCTIONS[ir].steps
     ELSE <<{"uIP_RST"}>>)

\* field f of a control word selects, through decoder dec, what it names
Selects(f, codes, dec) ==
    codes[f] # 0 => (codes[f] \in DOMAIN dec /\ dec[codes[f]] = Named[f])

\* C40: every bus-source code and every bus-destination code in the control
\* words the microcode stores for a decoded opcode selects, through
\* build_cpu's source and destination decoders, the source or destination
\* of the field's name, and is wired to something
C40_EncodingsAgree ==
    cpu.opcode # None =>
        LET cws == ControlWords(cpu.opcode, cpu.flags)
        IN  \A i \in 1..Len(cws) : \A f \in cws[i] :
                /\ f \in DOMAIN DataSource => Selects(f, DataSource, src_dec)
                /\ f \in DOMAIN DataDest => Selects(f, DataDest, dst_dec)

====
